---- MODULE Spec2Model ----
(***************************************************************************)
(* Model of the positional XML editing core (XMLEditor) and of the ODT     *)
(* change-tracking layer (ODTDocument) built on it, together with the      *)
(* tracked-changes consistency validator.                                   *)
(*                                                                         *)
(* The DOM is a heap: a sequence of node records, a node's identity being  *)
(* its index.  Node 1 is the Document node.  XML text (a fragment string,  *)
(* the output of toxml) is a record [wf, forest]: wf says whether the text *)
(* is well formed, forest is the sequence of trees it spells.              *)
(***************************************************************************)
EXTENDS Integers, Sequences, FiniteSets, TLC

VARIABLES nodes,  \* the DOM heap of content.xml (XMLEditor.dom)
          res,    \* the last call: its name, arguments, outcome and result
          nops    \* number of calls made in the session

vars == <<nodes, res, nops>>

\* Longest session explored, in calls.
MaxOps == 2

None == 0            \* Python None where a node is expected (node ids are >= 1)
NoLine == -1         \* Python None where a line number is expected
DocNode == 1         \* the Document node (XMLEditor.dom)

NoAttrs == [x \in {} |-> ""]

\* The attribute set with one attribute.
Attr(name, value) == name :> value

\* ---------------------------------------------------------------------
\* XML text as trees
\* ---------------------------------------------------------------------
\* An element as it is written in XML text; line/col are where its opening
\* tag stands in a parsed file.
EL(tag, attrs, line, col, kids) ==
    [kind |-> "elem", tag |-> tag, attrs |-> attrs, data |-> <<>>,
     line |-> line, col |-> col, kids |-> kids]

E(tag, attrs, kids) == EL(tag, attrs, 0, 0, kids)

\* Character data.
T(data) ==
    [kind |-> "text", tag |-> "#text", attrs |-> NoAttrs, data |-> data,
     line |-> 0, col |-> 0, kids |-> <<>>]

Xml(forest) == [wf |-> TRUE, forest |-> forest]
Malformed == [wf |-> FALSE, forest |-> <<>>]

\* ---------------------------------------------------------------------
\* minidom primitives
\* ---------------------------------------------------------------------
Range(s) == {s[i] : i \in DOMAIN s}

IndexOf(s, x) == CHOOSE i \in DOMAIN s : s[i] = x

RemoveAt(s, i) == SubSeq(s, 1, i - 1) \o SubSeq(s, i + 1, Len(s))

InsertAt(s, i, x) == SubSeq(s, 1, i - 1) \o <<x>> \o SubSeq(s, i, Len(s))

IsElement(h, n) == h[n].kind = "elem"

nextSibling(h, n) ==
    LET p == h[n].parent IN
    IF p = None THEN None
    ELSE LET i == IndexOf(h[p].kids, n) IN
         IF i = Len(h[p].kids) THEN None ELSE h[p].kids[i + 1]

\* Node.removeChild: the child leaves the list and loses its parent.
removeChild(h, p, old) ==
    [h EXCEPT ![p].kids = RemoveAt(@, IndexOf(@, old)),
              ![old].parent = None]

Unlink(h, n) == IF h[n].parent = None THEN h ELSE removeChild(h, h[n].parent, n)

\* Node.appendChild: a node that has a parent is first removed from it.
appendChild(h, p, new) ==
    LET h1 == Unlink(h, new) IN
    [h1 EXCEPT ![p].kids = Append(@, new), ![new].parent = p]

\* Node.insertBefore: ref None appends, otherwise new goes to ref's index.
insertBefore(h, p, new, ref) ==
    IF ref = None THEN appendChild(h, p, new)
    ELSE LET h1 == Unlink(h, new) IN
         [h1 EXCEPT ![p].kids = InsertAt(@, IndexOf(@, ref), new),
                    ![new].parent = p]

\* Document.createElement: a new element with no parent and no position.
createElement(h, tag) ==
    Append(h, [kind |-> "elem", tag |-> tag, attrs |-> NoAttrs, data |-> <<>>,
               pos |-> <<>>, parent |-> None, kids |-> <<>>])

createTextNode(h, data) ==
    Append(h, [kind |-> "text", tag |-> "#text", attrs |-> NoAttrs, data |-> data,
               pos |-> <<>>, parent |-> None, kids |-> <<>>])

setAttribute(h, n, name, value) ==
    [h EXCEPT ![n].attrs = [a \in (DOMAIN @) \cup {name} |->
                              IF a = name THEN value ELSE @[a]]]

\* Element.getAttribute: the value, or "" when the attribute is absent.
getAttribute(h, n, name) ==
    IF name \in DOMAIN h[n].attrs THEN h[n].attrs[name] ELSE ""

RECURSIVE PreorderOf(_, _)
RECURSIVE PreorderAll(_, _)
\* n and its descendants, in document order.
PreorderOf(h, n) == <<n>> \o PreorderAll(h, h[n].kids)

PreorderAll(h, ks) ==
    IF ks = <<>> THEN <<>>
    ELSE PreorderOf(h, Head(ks)) \o PreorderAll(h, Tail(ks))

\* Document.getElementsByTagName: the elements of the document that carry
\* the tag, in document order.  Only what hangs under the Document is seen.
getElementsByTagName(h, tag) ==
    LET Hit(n) == IsElement(h, n) /\ h[n].tag = tag
    IN SelectSeq(PreorderOf(h, DocNode), Hit)

documentElement(h) == h[DocNode].kids[1]

\* ---------------------------------------------------------------------
\* Parsing and serialising
\* ---------------------------------------------------------------------
RECURSIVE MergeText(_)
\* What a parser makes of character data: adjacent runs become one text
\* node and an empty run makes none; applied at every level.
MergeText(f) ==
    IF f = <<>> THEN <<>>
    ELSE LET x == Head(f)
             r == MergeText(Tail(f))
         IN IF x.kind = "text"
            THEN IF x.data = <<>> THEN r
                 ELSE IF r # <<>> /\ Head(r).kind = "text"
                      THEN <<T(x.data \o Head(r).data)>> \o Tail(r)
                      ELSE <<x>> \o r
            ELSE <<[x EXCEPT !.kids = MergeText(@)]>> \o r

RECURSIVE AddTree(_, _, _, _)
RECURSIVE AddForest(_, _, _, _)
\* Build the nodes of one tree in heap h as a child of par.  track says
\* whether the builder is the line-tracking parser, which stamps every
\* element with the position of its opening tag.
AddTree(h, s, par, track) ==
    LET id == Len(h) + 1
        h1 == Append(h, [kind |-> s.kind, tag |-> s.tag, attrs |-> s.attrs,
                         data |-> s.data,
                         pos |-> IF track /\ s.kind = "elem"
                                 THEN <<s.line, s.col>> ELSE <<>>,
                         parent |-> par, kids |-> <<>>])
        r == AddForest(h1, s.kids, id, track)
    IN [h |-> [r.h EXCEPT ![id].kids = r.ids], id |-> id]

AddForest(h, f, par, track) ==
    IF f = <<>> THEN [h |-> h, ids |-> <<>>]
    ELSE LET a == AddTree(h, Head(f), par, track)
             b == AddForest(a.h, Tail(f), par, track)
         IN [h |-> b.h, ids |-> <<a.id>> \o b.ids]

\* minidom.parse(path, parser) of XMLEditor.__init__: the Document node with
\* the tree of the file under it, every element carrying its position.
ParseDocument(rootSpec) ==
    LET d == <<[kind |-> "doc", tag |-> "#document", attrs |-> NoAttrs,
                data |-> <<>>, pos |-> <<>>, parent |-> None, kids |-> <<>>]>>
        a == AddTree(d, [rootSpec EXCEPT !.kids = MergeText(@)], DocNode, TRUE)
    IN [a.h EXCEPT ![DocNode].kids = <<a.id>>]

RECURSIVE ToTree(_, _)
\* Node.toxml(): the subtree as XML text.  Positions are not part of it.
ToTree(h, n) ==
    IF h[n].kind = "text" THEN T(h[n].data)
    ELSE E(h[n].tag, h[n].attrs, [i \in DOMAIN h[n].kids |-> ToTree(h, h[n].kids[i])])

toxml(h, n) == Xml(<<ToTree(h, n)>>)

\* ---------------------------------------------------------------------
\* XMLEditor (utilities.py)
\* ---------------------------------------------------------------------
\* The outcome of a call: the heap it leaves, whether it returned or raised,
\* the error it raised, and what it returned.
Ok(h, ret) == [h |-> h, st |-> "ok", err |-> "", ret |-> ret]
Raised(h, err) == [h |-> h, st |-> "raised", err |-> err, ret |-> None]

\* The assertion asking only for a node, of whatever kind.
AssertNodes(a) ==
    IF a.ids = <<>> THEN Raised(a.h, "AssertionError") ELSE Ok(a.h, a.ids)

\* assert elements, "Fragment must contain at least one element" on the
\* imported nodes a; the call returns all of them, text nodes included.
AssertElements(a) ==
    IF SelectSeq(a.ids, LAMBDA n : IsElement(a.h, n)) = <<>>
    THEN Raised(a.h, "AssertionError")
    ELSE Ok(a.h, a.ids)

\* _parse_fragment with the line-tracking parser on the wrapper.
_parse_fragment_tracked(h, xml_content) ==
    IF ~xml_content.wf THEN Raised(h, "ExpatError")
    ELSE AssertElements(AddForest(h, MergeText(xml_content.forest), None, TRUE))

\* XMLEditor._parse_fragment: parse the fragment inside a wrapper root that
\* repeats the namespace declarations of the document root (a fragment that
\* uses an undeclared prefix is not well formed), import the wrapper's
\* children into the document, and insist on at least one element.
\* Imported nodes have no parent and no position; when the assertion fails
\* they stay behind, unreachable from the document.
_parse_fragment(h, xml_content) ==
    IF ~xml_content.wf THEN Raised(h, "ExpatError")
    ELSE AssertElements(AddForest(h, MergeText(xml_content.forest), None, FALSE))

Whitespace == {" ", "\n"}

\* str.strip() leaves something iff some character is not whitespace.
StripNonEmpty(data) == \E i \in DOMAIN data : data[i] \notin Whitespace

RECURSIVE DataOf(_, _)
\* The data of the text nodes among ns, one after the other.
DataOf(h, ns) ==
    IF ns = <<>> THEN <<>>
    ELSE (IF h[Head(ns)].kind = "text" THEN h[Head(ns)].data ELSE <<>>)
            \o DataOf(h, Tail(ns))

\* The text of an element with blank text nodes kept.
_get_element_text_all(h, elem) == DataOf(h, PreorderOf(h, elem))

RECURSIVE _get_element_text(_, _)
RECURSIVE TextOfChildren(_, _)
\* XMLEditor._get_element_text: the data of the text children that are not
\* blank, and the text of every other child, concatenated in order.
_get_element_text(h, elem) == TextOfChildren(h, h[elem].kids)

TextOfChildren(h, ks) ==
    IF ks = <<>> THEN <<>>
    ELSE LET node == Head(ks)
             part == IF h[node].kind = "text"
                     THEN IF StripNonEmpty(h[node].data) THEN h[node].data ELSE <<>>
                     ELSE _get_element_text(h, node)
         IN part \o TextOfChildren(h, Tail(ks))

\* html.unescape on the entities the model's alphabet has.
Unescape(text) ==
    [i \in DOMAIN text |-> CASE text[i] = "&amp;" -> "&"
                             [] text[i] = "&lt;" -> "<"
                             [] OTHER -> text[i]]

\* Python's  a in b  on strings.
IsSubstring(a, b) ==
    \E i \in 0..(Len(b) - Len(a)) : SubSeq(b, i + 1, i + Len(a)) = a

\* The line_number argument: None, an int, or range(lo, hi).
NoLineArg == [kind |-> "none", lo |-> 0, hi |-> 0]
LineArg(l) == [kind |-> "int", lo |-> l, hi |-> l]
RangeArg(lo, hi) == [kind |-> "range", lo |-> lo, hi |-> hi]

\* The contains argument: None or a string.
NoContains == [given |-> FALSE, text |-> <<>>]
Contains(text) == [given |-> TRUE, text |-> text]

\* getattr(elem, "parse_position", (None,))[0]
ElemLine(h, elem) == IF h[elem].pos = <<>> THEN NoLine ELSE h[elem].pos[1]

\* range membership that takes hi in as well.
InPyRangeInclusive(x, lo, hi) == x # NoLine /\ lo <= x /\ x <= hi

\* x in range(lo, hi)
InPyRange(x, lo, hi) == x # NoLine /\ lo <= x /\ x < hi

\* The body of the loop of get_node: does elem pass every supplied filter?
PassesFilters(h, elem, attrs, line_number, contains) ==
    /\ \/ line_number.kind = "none"
       \/ /\ line_number.kind = "range"
          /\ InPyRange(ElemLine(h, elem), line_number.lo, line_number.hi)
       \/ /\ line_number.kind = "int"
          /\ ElemLine(h, elem) = line_number.lo
    /\ \A attr_name \in DOMAIN attrs :
           getAttribute(h, elem, attr_name) = attrs[attr_name]
    /\ \/ ~contains.given
       \/ IsSubstring(Unescape(contains.text), _get_element_text(h, elem))

\* get_node without the check for several matches: the first match wins.
get_node_first_match(h, tag, attrs, line_number, contains) ==
    LET matches == SelectSeq(getElementsByTagName(h, tag),
                     LAMBDA elem : PassesFilters(h, elem, attrs, line_number, contains))
    IN IF matches = <<>> THEN Raised(h, "NotFound") ELSE Ok(h, matches[1])

\* XMLEditor.get_node: the single element with the tag that passes the
\* filters; an error when there is none or more than one.
get_node(h, tag, attrs, line_number, contains) ==
    LET matches == SelectSeq(getElementsByTagName(h, tag),
                     LAMBDA elem : PassesFilters(h, elem, attrs, line_number, contains))
    IN IF matches = <<>> THEN Raised(h, "NotFound")
       ELSE IF Len(matches) > 1 THEN Raised(h, "Ambiguous")
       ELSE Ok(h, matches[1])

RECURSIVE InsertEachBefore(_, _, _, _)
\* for node in nodes: parent.insertBefore(node, elem)
InsertEachBefore(h, parent, ns, elem) ==
    IF ns = <<>> THEN h
    ELSE InsertEachBefore(insertBefore(h, parent, Head(ns), elem), parent, Tail(ns), elem)

RECURSIVE InsertEachAfter(_, _, _, _)
\* for node in nodes: append when elem has no next sibling, otherwise
\* insert before elem's next sibling, read anew at every turn.
InsertEachAfter(h, parent, ns, elem) ==
    IF ns = <<>> THEN h
    ELSE LET h1 == IF nextSibling(h, elem) = None
                   THEN appendChild(h, parent, Head(ns))
                   ELSE insertBefore(h, parent, Head(ns), nextSibling(h, elem))
         IN InsertEachAfter(h1, parent, Tail(ns), elem)

RECURSIVE AppendEach(_, _, _)
\* for node in nodes: elem.appendChild(node)
AppendEach(h, elem, ns) ==
    IF ns = <<>> THEN h
    ELSE AppendEach(appendChild(h, elem, Head(ns)), elem, Tail(ns))

\* The statements of the editing methods that follow _parse_fragment; p is
\* what _parse_fragment gave, and nothing is touched when it raised.
ReplaceByAfterLoop(p, parent, elem) ==
    IF p.st = "raised" THEN p
    ELSE Ok(removeChild(InsertEachAfter(p.h, parent, p.ret, elem), parent, elem),
            p.ret[1])

\* The nodes are inserted before elem and elem is left where it is.
ReplaceByKeepTarget(p, parent, elem) ==
    IF p.st = "raised" THEN p
    ELSE Ok(InsertEachBefore(p.h, parent, p.ret, elem), p.ret[1])

ReplaceBy(p, parent, elem) ==
    IF p.st = "raised" THEN p
    ELSE Ok(removeChild(InsertEachBefore(p.h, parent, p.ret, elem), parent, elem),
            p.ret[1])

PlaceAfter(p, parent, elem) ==
    IF p.st = "raised" THEN p
    ELSE Ok(InsertEachAfter(p.h, parent, p.ret, elem), p.ret)

PlaceBefore(p, parent, elem) ==
    IF p.st = "raised" THEN p
    ELSE Ok(InsertEachBefore(p.h, parent, p.ret, elem), p.ret)

PlaceUnder(p, elem) ==
    IF p.st = "raised" THEN p
    ELSE Ok(AppendEach(p.h, elem, p.ret), p.ret)

\* The imported nodes a are inserted before elem, and only then is an
\* element looked for among them.
PlaceBeforeThenAssert(a, parent, elem) ==
    IF \E i \in DOMAIN a.ids : IsElement(a.h, a.ids[i])
    THEN Ok(InsertEachBefore(a.h, parent, a.ids, elem), a.ids)
    ELSE Raised(InsertEachBefore(a.h, parent, a.ids, elem), "AssertionError")

\* replace_node that places the nodes with the loop of insert_after.
replace_node_after_loop(h, elem, xml_content) ==
    ReplaceByAfterLoop(_parse_fragment(h, xml_content), h[elem].parent, elem)

\* XMLEditor.replace_node
replace_node(h, elem, xml_content) ==
    ReplaceBy(_parse_fragment(h, xml_content), h[elem].parent, elem)

\* XMLEditor.insert_after
insert_after(h, elem, xml_content) ==
    PlaceAfter(_parse_fragment(h, xml_content), h[elem].parent, elem)

\* insert_before that looks for an element only after it has inserted.
insert_before_late_check(h, elem, xml_content) ==
    IF ~xml_content.wf THEN Raised(h, "ExpatError")
    ELSE PlaceBeforeThenAssert(AddForest(h, MergeText(xml_content.forest), None, FALSE),
                               h[elem].parent, elem)

\* XMLEditor.insert_before
insert_before(h, elem, xml_content) ==
    PlaceBefore(_parse_fragment(h, xml_content), h[elem].parent, elem)

\* XMLEditor.append_to
append_to(h, elem, xml_content) ==
    PlaceUnder(_parse_fragment(h, xml_content), elem)

\* XMLEditor.remove_node
remove_node(h, elem) == Ok(removeChild(h, h[elem].parent, elem), None)

\* ---------------------------------------------------------------------
\* ODTDocument (odt_document.py)
\* ---------------------------------------------------------------------
\* _first_last_elements: the first and the last element of a node list, or
\* (None, None) when it holds no element.
_first_last_elements(h, ns) ==
    LET elements == SelectSeq(ns, LAMBDA n : IsElement(h, n))
    IN IF elements = <<>> THEN <<None, None>>
       ELSE <<elements[1], elements[Len(elements)]>>

IdPool == <<"ct1", "ct2", "ct3", "ct4", "ct5", "ct6", "ct7", "ct8">>

\* Every text:id and text:change-id value some node carries.
IdsInUse(h) ==
    {getAttribute(h, n, "text:id") : n \in DOMAIN h} \cup
    {getAttribute(h, n, "text:change-id") : n \in DOMAIN h}

\* ODTDocument.new_change_id: "ct" and eight random hexadecimal digits.  The
\* draw is taken not to repeat an id of the document: the first id of the
\* pool that no node carries.
new_change_id(h) ==
    IdPool[CHOOSE i \in DOMAIN IdPool :
              /\ IdPool[i] \notin IdsInUse(h)
              /\ \A j \in 1..(i - 1) : IdPool[j] \in IdsInUse(h)]

\* The loop that looks for text:sequence-decls among parent's children:
\* every hit overwrites the previous one, so the last one is kept.
LastSequenceDecls(h, parent) ==
    LET hits == SelectSeq(h[parent].kids,
                  LAMBDA n : IsElement(h, n) /\ h[n].tag = "text:sequence-decls")
    IN IF hits = <<>> THEN None ELSE hits[Len(hits)]

\* The loop that looks for the first element child of parent.
FirstElementChild(h, parent) ==
    LET elems == SelectSeq(h[parent].kids, LAMBDA n : IsElement(h, n))
    IN IF elems = <<>> THEN None ELSE elems[1]

\* ensure_tracked_changes without the search for an existing container.
ensure_tracked_changes_always_new(h) ==
    LET office_text == getElementsByTagName(h, "office:text")
    IN IF office_text = <<>> THEN Raised(h, "ValueError")
       ELSE LET parent == office_text[1]
                h1 == createElement(h, "text:tracked-changes")
                tracked == Len(h1)
                first_elem == FirstElementChild(h1, parent)
            IN IF first_elem = None
               THEN Ok(appendChild(h1, parent, tracked), tracked)
               ELSE Ok(insertBefore(h1, parent, tracked, first_elem), tracked)

\* ODTDocument.ensure_tracked_changes
ensure_tracked_changes(h) ==
    LET existing == getElementsByTagName(h, "text:tracked-changes")
        office_text == getElementsByTagName(h, "office:text")
    IN IF existing # <<>> THEN Ok(h, existing[1])
       ELSE IF office_text = <<>> THEN Raised(h, "ValueError")
       ELSE LET parent == office_text[1]
                h1 == createElement(h, "text:tracked-changes")
                tracked == Len(h1)
                insert_after_ == LastSequenceDecls(h1, parent)
            IN IF insert_after_ # None /\ nextSibling(h1, insert_after_) # None
               THEN Ok(insertBefore(h1, parent, tracked, nextSibling(h1, insert_after_)),
                       tracked)
               ELSE LET first_elem == FirstElementChild(h1, parent)
                    IN IF first_elem = None
                       THEN Ok(appendChild(h1, parent, tracked), tracked)
                       ELSE Ok(insertBefore(h1, parent, tracked, first_elem), tracked)

ChangeTypes == {"insertion", "deletion", "format-change"}

\* f"text:{change_type}"
ChangeTag(change_type) ==
    CASE change_type = "insertion" -> "text:insertion"
      [] change_type = "deletion" -> "text:deletion"
      [] change_type = "format-change" -> "text:format-change"

\* Python truth of a string argument: None and "" are false.
Truthy(xml_content) == ~(xml_content.wf /\ xml_content.forest = <<>>)

\* datetime.now(timezone.utc).strftime(...): the clock's reading, one token.
Now == <<"T">>

\* changed_region = createElement(...); setAttribute("text:id", change_id).
\* A node made by createElement gets the next free place of the heap.
NewChangedRegion(h, id) ==
    setAttribute(createElement(h, "text:changed-region"), Len(h) + 1, "text:id", id)

\* creator = createElement("dc:creator"), its text child, and its place
\* under change_info.
AddCreator(h, change_info, author) ==
    LET creator == Len(h) + 1
        text == Len(h) + 2
    IN appendChild(appendChild(createTextNode(createElement(h, "dc:creator"), author),
                               creator, text),
                   change_info, creator)

\* date_elem = createElement("dc:date"), its text child, and its place
\* under change_info.
AddDate(h, change_info, timestamp) ==
    LET date_elem == Len(h) + 1
        text == Len(h) + 2
    IN appendChild(appendChild(createTextNode(createElement(h, "dc:date"), timestamp),
                               date_elem, text),
                   change_info, date_elem)

\* change_elem with its office:change-info (creator and date) appended.
NewChangeElem(h, change_type, author, timestamp) ==
    LET change_elem == Len(h) + 1
        change_info == Len(h) + 2
    IN appendChild(
           AddDate(AddCreator(createElement(createElement(h, ChangeTag(change_type)),
                                            "office:change-info"),
                              change_info, author),
                   change_info, timestamp),
           change_elem, change_info)

\* The record put at the head of the container instead of its end.
AttachRecordFirst(a, tracked, changed_region, change_elem, id) ==
    IF a.st = "raised" THEN a
    ELSE Ok(insertBefore(appendChild(a.h, changed_region, change_elem),
                         tracked, changed_region,
                         IF a.h[tracked].kids = <<>> THEN None ELSE a.h[tracked].kids[1]),
            id)

\* The last two statements of add_change_record, reached when append_to did
\* not raise: change_elem goes under changed_region, changed_region under
\* the container.
AttachRecord(a, tracked, changed_region, change_elem, id) ==
    IF a.st = "raised" THEN a
    ELSE Ok(appendChild(appendChild(a.h, changed_region, change_elem),
                        tracked, changed_region),
            id)

\* The payload, when there is one, is parsed and appended to change_elem.
AddPayload(h, change_elem, content_xml) ==
    IF Truthy(content_xml) THEN append_to(h, change_elem, content_xml)
    ELSE Ok(h, None)

\* add_change_record from the container on; t is what ensure_tracked_changes
\* gave.
RecordUnder(t, change_type, author, date, content_xml, id) ==
    IF t.st = "raised" THEN t
    ELSE AttachRecord(
             AddPayload(NewChangeElem(NewChangedRegion(t.h, id), change_type, author,
                                      IF date # <<>> THEN date ELSE Now),
                        Len(t.h) + 2, content_xml),
             t.ret, Len(t.h) + 1, Len(t.h) + 2, id)

\* add_change_record that looks at change_type only after it has fetched
\* the container.
add_change_record_late_check(h, change_type, author, date, content_xml, change_id) ==
    IF ensure_tracked_changes(h).st = "ok" /\ change_type \notin ChangeTypes
    THEN Raised(ensure_tracked_changes(h).h, "ValueError")
    ELSE RecordUnder(ensure_tracked_changes(h), change_type, author, date, content_xml,
                     IF change_id # "" THEN change_id ELSE new_change_id(h))

\* ODTDocument.add_change_record.  date is <<>> for None, change_id is "" for
\* None, content_xml is the empty text for None.
add_change_record(h, change_type, author, date, content_xml, change_id) ==
    IF change_type \notin ChangeTypes THEN Raised(h, "ValueError")
    ELSE RecordUnder(ensure_tracked_changes(h), change_type, author, date, content_xml,
                     IF change_id # "" THEN change_id ELSE new_change_id(h))

\* f'<text:change-start text:change-id="{change_id}"/>' and its kin
MarkerXml(tag, change_id) == Xml(<<E(tag, Attr("text:change-id", change_id), <<>>)>>)

\* A step that returns nothing of its own: the call's value is ret unless
\* the step raised.
Returning(m, ret) == IF m.st = "raised" THEN m ELSE Ok(m.h, ret)

\* add_change_markers after the start marker: b is what its insert_before
\* gave.
EndMarker(b, change_id, end) ==
    IF b.st = "raised" THEN b
    ELSE Returning(insert_after(b.h, end, MarkerXml("text:change-end", change_id)),
                   None)

\* add_change_markers that first makes sure the container exists.
add_change_markers_ensure(h, change_id, start_elem, end_elem) ==
    EndMarker(insert_before(ensure_tracked_changes(h).h, start_elem,
                            MarkerXml("text:change-start", change_id)),
              change_id, IF end_elem # None THEN end_elem ELSE start_elem)

\* ODTDocument.add_change_markers; end_elem is None when not given.
add_change_markers(h, change_id, start_elem, end_elem) ==
    EndMarker(insert_before(h, start_elem, MarkerXml("text:change-start", change_id)),
              change_id, IF end_elem # None THEN end_elem ELSE start_elem)

\* ODTDocument.add_change_point
add_change_point(h, change_id, after_elem) ==
    Returning(insert_after(h, after_elem, MarkerXml("text:change", change_id)), None)

\* suggest_insertion after insert_after: i is what insert_after gave.  Range
\* markers go around the first and last element of the inserted nodes, a
\* point marker after after_elem when there is no element among them.
MarkInsertion(i, change_id, after_elem) ==
    IF i.st = "raised" THEN i
    ELSE LET fl == _first_last_elements(i.h, i.ret)
         IN Returning(IF fl[1] # None /\ fl[2] # None
                      THEN add_change_markers(i.h, change_id, fl[1], fl[2])
                      ELSE add_change_point(i.h, change_id, after_elem),
                      change_id)

\* suggest_insertion after add_change_record: c is what add_change_record
\* gave.
InsertRecorded(c, after_elem, xml_content) ==
    IF c.st = "raised" THEN c
    ELSE MarkInsertion(insert_after(c.h, after_elem, xml_content), c.ret, after_elem)

\* ODTDocument.suggest_insertion
suggest_insertion(h, after_elem, xml_content, author) ==
    InsertRecorded(add_change_record(h, "insertion", author, <<>>, xml_content, ""),
                   after_elem, xml_content)

\* suggest_deletion after the point marker: m is what the marker's
\* insert_after gave.
RemoveMarked(m, target_elem, change_id) ==
    IF m.st = "raised" THEN m
    ELSE Ok(remove_node(m.h, target_elem).h, change_id)

\* suggest_deletion after add_change_record, the marker carrying a newly
\* drawn id instead of the record's.
DeleteRecordedOtherId(c, target_elem) ==
    IF c.st = "raised" THEN c
    ELSE RemoveMarked(insert_after(c.h, target_elem,
                                   MarkerXml("text:change", new_change_id(c.h))),
                      target_elem, c.ret)

\* suggest_deletion after add_change_record: c is what add_change_record
\* gave.
DeleteRecorded(c, target_elem) ==
    IF c.st = "raised" THEN c
    ELSE RemoveMarked(insert_after(c.h, target_elem, MarkerXml("text:change", c.ret)),
                      target_elem, c.ret)

\* suggest_deletion after add_change_record, the marker appended as the last
\* child of the target's parent instead of inserted after the target.
DeleteRecordedMarkerLast(c, target_elem) ==
    IF c.st = "raised" THEN c
    ELSE RemoveMarked(append_to(c.h, c.h[target_elem].parent,
                                MarkerXml("text:change", c.ret)),
                      target_elem, c.ret)

\* suggest_deletion that appends the marker to the target's parent.
suggest_deletion_marker_last(h, target_elem, author) ==
    DeleteRecordedMarkerLast(
        add_change_record(h, "deletion", author, <<>>, toxml(h, target_elem), ""),
        target_elem)

\* suggest_deletion whose marker carries a newly drawn id instead of the
\* record's.
suggest_deletion_other_id(h, target_elem, author) ==
    DeleteRecordedOtherId(
        add_change_record(h, "deletion", author, <<>>, toxml(h, target_elem), ""),
        target_elem)

\* ODTDocument.suggest_deletion
suggest_deletion(h, target_elem, author) ==
    DeleteRecorded(
        add_change_record(h, "deletion", author, <<>>, toxml(h, target_elem), ""),
        target_elem)

\* return del_id, ins_id
PairIds(s, del_id) == IF s.st = "raised" THEN s ELSE Ok(s.h, <<del_id, s.ret>>)

\* suggest_replacement after get_node: g is what get_node gave, the
\* deletion's point marker when it found one.
InsertAtMarker(g, del_id, xml_content, author) ==
    IF g.st = "raised" THEN g
    ELSE PairIds(suggest_insertion(g.h, g.ret, xml_content, author), del_id)

\* suggest_replacement after suggest_deletion: d is what suggest_deletion
\* gave.
ReplaceDeleted(d, xml_content, author) ==
    IF d.st = "raised" THEN d
    ELSE InsertAtMarker(get_node(d.h, "text:change", Attr("text:change-id", d.ret),
                                 NoLineArg, NoContains),
                        d.ret, xml_content, author)

\* ODTDocument.suggest_replacement
suggest_replacement(h, target_elem, xml_content, author) ==
    ReplaceDeleted(suggest_deletion(h, target_elem, author), xml_content, author)

\* ---------------------------------------------------------------------
\* validate_changes.py
\* ---------------------------------------------------------------------
\* root.findall(".//tag"): the descendants of the document element with the
\* tag, in document order; the document element itself is not among them.
FindAll(h, tag) ==
    SelectSeq(Tail(PreorderOf(h, documentElement(h))),
              LAMBDA n : IsElement(h, n) /\ h[n].tag = tag)

\* The change-ids the file declares: the text:id of the changed-region
\* children of every tracked-changes element, empty ids left out.
DeclaredIds(h) ==
    {getAttribute(h, region, "text:id") :
        region \in {r \in UNION {Range(h[t].kids) : t \in Range(FindAll(h, "text:tracked-changes"))} :
                       IsElement(h, r) /\ h[r].tag = "text:changed-region"}} \ {""}

MarkerTags == <<"text:change-start", "text:change-end", "text:change">>

\* markers: the change-start, then the change-end, then the change elements.
Markers(h) ==
    FindAll(h, MarkerTags[1]) \o FindAll(h, MarkerTags[2]) \o FindAll(h, MarkerTags[3])

\* The change-id of every element with the tag, in document order
\* (m.get("text:change-id"): "" stands for an absent attribute as well).
MarkerIds(h, tag) ==
    [i \in DOMAIN FindAll(h, tag) |->
        getAttribute(h, FindAll(h, tag)[i], "text:change-id")]

\* Counter(...)[cid]: how often cid occurs in the list.
CountOf(ids, cid) == Cardinality({i \in DOMAIN ids : ids[i] = cid})

\* ValidateErrors that reports an unknown id once, however many markers
\* carry it.
ValidateErrorsOncePerId(h) ==
    LET markers == Markers(h)
        change_ids == DeclaredIds(h)
        ids == [i \in DOMAIN markers |-> getAttribute(h, markers[i], "text:change-id")]
    IN SelectSeq([i \in DOMAIN ids |->
                    IF \E j \in 1..(i - 1) : ids[j] = ids[i] THEN "" ELSE ids[i]],
                 LAMBDA cid : cid # "" /\ cid \notin change_ids)

\* errors: one entry for every marker whose non-empty id is not declared.
ValidateErrors(h) ==
    LET markers == Markers(h)
        change_ids == DeclaredIds(h)
        ids == [i \in DOMAIN markers |-> getAttribute(h, markers[i], "text:change-id")]
    IN SelectSeq(ids, LAMBDA cid : cid # "" /\ cid \notin change_ids)

\* ValidateWarnings that flags every id whose change-start and change-end
\* counts differ, whichever is the larger.
ValidateWarningsAnyImbalance(h) ==
    LET starts == MarkerIds(h, "text:change-start")
        ends == MarkerIds(h, "text:change-end")
        markers == Markers(h)
        ref_ids == {getAttribute(h, markers[i], "text:change-id") : i \in DOMAIN markers} \ {""}
    IN {[kind |-> "unbalanced", cid |-> cid] :
           cid \in {c \in Range(starts) \ {""} : CountOf(ends, c) # CountOf(starts, c)}}
       \cup
       {[kind |-> "unreferenced", cid |-> cid] :
           cid \in {c \in DeclaredIds(h) : c \notin ref_ids}}

\* warnings: one for every id with fewer change-end than change-start
\* markers, one for every declared id that no marker carries.
ValidateWarnings(h) ==
    LET starts == MarkerIds(h, "text:change-start")
        ends == MarkerIds(h, "text:change-end")
        markers == Markers(h)
        ref_ids == {getAttribute(h, markers[i], "text:change-id") : i \in DOMAIN markers} \ {""}
    IN {[kind |-> "unbalanced", cid |-> cid] :
           cid \in {c \in Range(starts) \ {""} : CountOf(ends, c) < CountOf(starts, c)}}
       \cup
       {[kind |-> "unreferenced", cid |-> cid] :
           cid \in {c \in DeclaredIds(h) : c \notin ref_ids}}

\* validate that fails on a warning as well.
validate_strict(h) ==
    IF ValidateErrors(h) = <<>> /\ ValidateWarnings(h) = {} THEN 0 ELSE 1

\* validate: 0 when there is no error, 1 otherwise.
validate(h) == IF ValidateErrors(h) = <<>> THEN 0 ELSE 1

\* The xml string of add_annotation.  text is put between the tags of
\* text:p as it is, so it is read as XML.
AnnotationXml(annotation_name, author, timestamp, text) ==
    IF ~text.wf THEN Malformed
    ELSE Xml(<<E("office:annotation", Attr("office:name", annotation_name),
                 <<E("dc:creator", NoAttrs, <<T(author)>>),
                   E("dc:date", NoAttrs, <<T(timestamp)>>),
                   E("text:p", NoAttrs, text.forest)>>)>>)

\* add_annotation that makes sure of a tracked-changes container first.
add_annotation_tracked(h, target_elem, text, author, date, name, random) ==
    Returning(insert_before(ensure_tracked_changes(h).h, target_elem,
                            AnnotationXml(IF name # "" THEN name ELSE random, author,
                                          IF date # <<>> THEN date ELSE Now, text)),
              IF name # "" THEN name ELSE random)

\* ODTDocument.add_annotation.  name is "" for None, date is <<>> for None;
\* random is what random.choices gives when no name is passed.
add_annotation(h, target_elem, text, author, date, name, random) ==
    Returning(insert_before(h, target_elem,
                            AnnotationXml(IF name # "" THEN name ELSE random, author,
                                          IF date # <<>> THEN date ELSE Now, text)),
              IF name # "" THEN name ELSE random)

\* add_annotation_range after add_annotation: a is what it gave.
EndAnnotation(a, end_elem) ==
    IF a.st = "raised" THEN a
    ELSE Returning(insert_after(a.h, end_elem,
                       Xml(<<E("office:annotation-end", Attr("office:name", a.ret), <<>>)>>)),
                   a.ret)

\* ODTDocument.add_annotation_range
add_annotation_range(h, start_elem, end_elem, text, author, date, name, random) ==
    EndAnnotation(add_annotation(h, start_elem, text, author, date, name, random), end_elem)

\* ---------------------------------------------------------------------
\* Documents, fragments and queries the model explores
\* ---------------------------------------------------------------------
WS == T(<<"\n">>)

Root(line, bodyKids) ==
    EL("office:document-content", NoAttrs, 1, 0,
       <<EL("office:body", NoAttrs, line, 0,
            <<EL("office:text", NoAttrs, line, 0, bodyKids)>>)>>)

\* Files as an office suite writes them (no whitespace between elements, all
\* on two lines) and as the unpack script pretty-prints them (one element a
\* line, whitespace between).

\* two paragraphs on one line, the second holding a span
DocTwoParas ==
    Root(2, << EL("text:p", Attr("a", "1"), 2, 40, <<T(<<"h", "i">>)>>),
               EL("text:p", NoAttrs, 2, 60,
                  <<T(<<"h">>), EL("text:span", NoAttrs, 2, 70, <<T(<<"i">>)>>)>>) >>)

\* pretty-printed, declarations first
DocPretty ==
    Root(3, << WS, EL("text:sequence-decls", NoAttrs, 4, 6, <<>>),
               WS, EL("text:p", Attr("a", "1"), 5, 6, <<T(<<"h", "i">>)>>), WS >>)

\* declarations directly followed by a paragraph
DocDeclsFirst ==
    Root(2, << EL("text:sequence-decls", NoAttrs, 2, 40, <<>>),
               EL("text:p", NoAttrs, 2, 60, <<T(<<"h", "i">>)>>) >>)

\* an empty body: the declarations are the last child
DocDeclsLast ==
    Root(2, << EL("text:sequence-decls", NoAttrs, 2, 40, <<>>) >>)

\* a file that already has a tracked-changes container
DocTracked ==
    Root(2, << EL("text:tracked-changes", NoAttrs, 2, 40, <<>>),
               EL("text:p", NoAttrs, 3, 0, <<T(<<"h", "i">>)>>) >>)

EditDocuments == {DocTwoParas, DocPretty}

\* Fragment strings a caller passes.
FragOne == Xml(<<E("text:p", Attr("a", "7"), <<T(<<"y", "o">>)>>)>>)
FragTwo == Xml(<<E("text:p", Attr("a", "8"), <<>>), E("text:span", NoAttrs, <<>>)>>)
FragMixed == Xml(<<T(<<"y">>), E("text:span", NoAttrs, <<>>)>>)
FragText == Xml(<<T(<<"y", "o">>)>>)
FragEmpty == Xml(<<>>)
FragBlank == Xml(<<T(<<" ", "\n">>)>>)

EditFragments == {FragOne, FragTwo, FragMixed, FragText, FragEmpty, FragBlank, Malformed}

QueryTags == {"text:p", "text:span"}
QueryAttrs == {NoAttrs, Attr("a", "1"), Attr("a", "")}
QueryLines == {NoLineArg, LineArg(2), RangeArg(4, 6), RangeArg(2, 5)}
QueryContains == {NoContains, Contains(<<"h", "i">>)}

\* ---------------------------------------------------------------------
\* The editing session
\* ---------------------------------------------------------------------
Attached(h) == Range(PreorderOf(h, DocNode))

RECURSIVE Ancestors(_, _)
\* The parent of n, its parent, and so on.
Ancestors(h, n) ==
    IF h[n].parent = None THEN {}
    ELSE {h[n].parent} \cup Ancestors(h, h[n].parent)

\* Elements a caller may hold and pass as a target: attached elements
\* inside office:text.
Targets(h) ==
    {n \in Attached(h) :
        /\ IsElement(h, n)
        /\ \E a \in Ancestors(h, n) : h[a].tag = "office:text"}

Call(op, args, r) ==
    [op |-> op, args |-> args, st |-> r.st, err |-> r.err, ret |-> r.ret]

NoCall == [op |-> "init", args |-> <<>>, st |-> "ok", err |-> "", ret |-> None]

InitEdit ==
    /\ \E d \in EditDocuments : nodes = ParseDocument(d)
    /\ res = NoCall
    /\ nops = 0

GetNode ==
    /\ nops < MaxOps
    /\ \E tag \in QueryTags, attrs \in QueryAttrs,
          line_number \in QueryLines, contains \in QueryContains :
        LET r == get_node(nodes, tag, attrs, line_number, contains) IN
        /\ res' = Call("get_node",
                       [tag |-> tag, attrs |-> attrs,
                        line_number |-> line_number, contains |-> contains], r)
        /\ nodes' = r.h
    /\ nops' = nops + 1

ReplaceNode ==
    /\ nops < MaxOps
    /\ \E elem \in Targets(nodes), xml_content \in EditFragments :
        LET r == replace_node(nodes, elem, xml_content) IN
        /\ res' = Call("replace_node", [elem |-> elem, xml_content |-> xml_content], r)
        /\ nodes' = r.h
    /\ nops' = nops + 1

InsertAfter ==
    /\ nops < MaxOps
    /\ \E elem \in Targets(nodes), xml_content \in EditFragments :
        LET r == insert_after(nodes, elem, xml_content) IN
        /\ res' = Call("insert_after", [elem |-> elem, xml_content |-> xml_content], r)
        /\ nodes' = r.h
    /\ nops' = nops + 1

InsertBefore ==
    /\ nops < MaxOps
    /\ \E elem \in Targets(nodes), xml_content \in EditFragments :
        LET r == insert_before(nodes, elem, xml_content) IN
        /\ res' = Call("insert_before", [elem |-> elem, xml_content |-> xml_content], r)
        /\ nodes' = r.h
    /\ nops' = nops + 1

AppendTo ==
    /\ nops < MaxOps
    /\ \E elem \in Targets(nodes), xml_content \in EditFragments :
        LET r == append_to(nodes, elem, xml_content) IN
        /\ res' = Call("append_to", [elem |-> elem, xml_content |-> xml_content], r)
        /\ nodes' = r.h
    /\ nops' = nops + 1

RemoveNode ==
    /\ nops < MaxOps
    /\ \E elem \in Targets(nodes) :
        LET r == remove_node(nodes, elem) IN
        /\ res' = Call("remove_node", [elem |-> elem], r)
        /\ nodes' = r.h
    /\ nops' = nops + 1

NextEdit ==
    \/ GetNode
    \/ ReplaceNode
    \/ InsertAfter
    \/ InsertBefore
    \/ AppendTo
    \/ RemoveNode

SpecEdit == InitEdit /\ [][NextEdit]_vars

\* ---------------------------------------------------------------------
\* Properties of the editing session
\* ---------------------------------------------------------------------
\* The document as a reader of the tree sees it: the attached nodes.
DocTree(h) == [n \in Attached(h) |-> h[n]]

\* The step is a call.
IsCall == nops' = nops + 1

\* The fragment is well formed and spells at least one element.
HasElement(xml) ==
    xml.wf /\ \E i \in DOMAIN xml.forest : xml.forest[i].kind = "elem"

\* The trees of a run of sibling nodes.
TreesOf(h, ns) == [i \in DOMAIN ns |-> ToTree(h, ns[i])]

FragmentOps == {"replace_node", "insert_before", "insert_after", "append_to"}

\* The attached elements with the query's tag that pass its filters.
QueryMatches(h, q) ==
    {n \in Attached(h) :
        /\ IsElement(h, n)
        /\ h[n].tag = q.tag
        /\ PassesFilters(h, n, q.attrs, q.line_number, q.contains)}

\* C1: get_node returns an element exactly when one attached element with
\* the tag passes every supplied filter, and then returns that element; it
\* raises not-found when none does and ambiguous when two or more do.
C1_LocatorUniqueness ==
    res.op = "get_node" =>
        LET M == QueryMatches(nodes, res.args) IN
        /\ (res.st = "ok") <=> (Cardinality(M) = 1)
        /\ (res.st = "ok") => (M = {res.ret})
        /\ (res.st = "raised" /\ res.err = "NotFound") <=> (M = {})
        /\ (res.st = "raised" /\ res.err = "Ambiguous") <=> (Cardinality(M) >= 2)

\* A query answered with the one attached match while a removed element
\* would pass the same filters.
C1_Witness ==
    /\ res.op = "get_node"
    /\ res.st = "ok"
    /\ \E n \in (DOMAIN nodes) \ Attached(nodes) :
          /\ IsElement(nodes, n)
          /\ nodes[n].tag = res.args.tag
          /\ nodes[n].pos # <<>>
          /\ PassesFilters(nodes, n, res.args.attrs, res.args.line_number,
                           res.args.contains)

\* C4: insert_after succeeds for every attached target and leaves the
\* parent's children as: the former children up to and including the
\* target, the fragment's nodes in fragment order, the target's former
\* following siblings.
C4_InsertAfterOrder ==
    [][(IsCall /\ res'.op = "insert_after" /\ HasElement(res'.args.xml_content)) =>
        LET elem == res'.args.elem
            parent == nodes[elem].parent
            old == nodes[parent].kids
            new == nodes'[parent].kids
            i == IndexOf(old, elem)
            k == Len(new) - Len(old)
        IN /\ res'.st = "ok"
           /\ SubSeq(new, 1, i) = SubSeq(old, 1, i)
           /\ SubSeq(new, i + k + 1, Len(new)) = SubSeq(old, i + 1, Len(old))
           /\ TreesOf(nodes', SubSeq(new, i + 1, i + k))
                = MergeText(res'.args.xml_content.forest)]_vars

\* C5: replace_node leaves the parent's children equal to the former
\* children with the target replaced, in place, by the fragment's nodes in
\* fragment order; the target is detached and the first inserted node is
\* returned.
C5_ReplaceInPlace ==
    [][(IsCall /\ res'.op = "replace_node" /\ HasElement(res'.args.xml_content)) =>
        LET elem == res'.args.elem
            parent == nodes[elem].parent
            old == nodes[parent].kids
            new == nodes'[parent].kids
            i == IndexOf(old, elem)
            k == Len(new) - Len(old) + 1
        IN /\ res'.st = "ok"
           /\ SubSeq(new, 1, i - 1) = SubSeq(old, 1, i - 1)
           /\ SubSeq(new, i + k, Len(new)) = SubSeq(old, i + 1, Len(old))
           /\ \A j \in i..(i + k - 1) : new[j] \notin DOMAIN nodes
           /\ TreesOf(nodes', SubSeq(new, i, i + k - 1))
                = MergeText(res'.args.xml_content.forest)
           /\ nodes'[elem].parent = None
           /\ elem \notin Attached(nodes')
           /\ res'.ret = new[i]]_vars

\* A target that had siblings on both sides replaced by two nodes.
C5_Witness ==
    /\ res.op = "replace_node"
    /\ res.st = "ok"
    /\ res.args.xml_content = FragTwo
    /\ nodes[res.args.elem].parent = None
    /\ LET parent == nodes[res.ret].parent
           i == IndexOf(nodes[parent].kids, res.ret)
       IN i > 1 /\ i + 1 < Len(nodes[parent].kids)

\* C7: replace_node, insert_before, insert_after and append_to parse and
\* check the fragment before they touch the tree: with a malformed fragment
\* or one without an element the call raises and the tree is unchanged.
C7_FragmentCheckedFirst ==
    [][(IsCall /\ res'.op \in FragmentOps /\ ~HasElement(res'.args.xml_content)) =>
        /\ res'.st = "raised"
        /\ DocTree(nodes') = DocTree(nodes)]_vars

\* A text-only fragment refused after other edits went through.
C7_Witness ==
    /\ res.op = "insert_before"
    /\ res.st = "raised"
    /\ res.err = "AssertionError"
    /\ res.args.xml_content = FragText
    /\ nops = 2

\* The fragment parses and yields no element: it is empty, blank or text.
NoElementFragment(xml) ==
    /\ xml.wf
    /\ \A i \in DOMAIN MergeText(xml.forest) : MergeText(xml.forest)[i].kind = "text"

\* C18: replace_node, insert_before, insert_after and append_to raise the
\* assertion error for a fragment that parses to no element (empty, blank
\* or text only), and insert nothing: every attached node keeps its
\* children and no node joins the document.
C18_NoElementRefused ==
    [][(IsCall /\ res'.op \in FragmentOps /\ NoElementFragment(res'.args.xml_content)) =>
        /\ res'.st = "raised"
        /\ res'.err = "AssertionError"
        /\ Attached(nodes') = Attached(nodes)
        /\ \A n \in Attached(nodes) : nodes'[n].kids = nodes[n].kids]_vars

\* A blank fragment refused by append_to after an edit; the text node it
\* imported is left outside the document.
C18_Witness ==
    /\ res.op = "append_to"
    /\ res.args.xml_content = FragBlank
    /\ res.st = "raised"
    /\ res.err = "AssertionError"
    /\ nops = 2
    /\ \E n \in (DOMAIN nodes) \ Attached(nodes) :
          nodes[n].kind = "text" /\ nodes[n].data = <<" ", "\n">>

\* The fragment spells one element and nothing else.
SingleElement(xml) ==
    xml.wf /\ Len(xml.forest) = 1 /\ xml.forest[1].kind = "elem"

\* The element a successful fragment operation inserted first.
FirstInserted(r) == IF r.op = "replace_node" THEN r.ret ELSE r.ret[1]

\* The attached elements with the tag that carry every attribute of attrs.
Carrying(h, tag, attrs) ==
    {n \in Attached(h) :
        /\ IsElement(h, n)
        /\ h[n].tag = tag
        /\ \A a \in DOMAIN attrs : getAttribute(h, n, a) = attrs[a]}

\* C23: after replace_node, insert_before, insert_after or append_to has
\* inserted a single-element fragment whose attributes no other element of
\* its tag carries, get_node by the tag and the attributes returns the
\* inserted element, whose content is the fragment's; and after
\* replace_node no get_node call returns the replaced target.
C23_InsertedIsFound ==
    (res.op \in FragmentOps /\ res.st = "ok") =>
        /\ (/\ SingleElement(res.args.xml_content)
            /\ Carrying(nodes, res.args.xml_content.forest[1].tag,
                        res.args.xml_content.forest[1].attrs) \subseteq {FirstInserted(res)})
             => /\ get_node(nodes, res.args.xml_content.forest[1].tag,
                            res.args.xml_content.forest[1].attrs, NoLineArg, NoContains)
                     = Ok(nodes, FirstInserted(res))
                /\ _get_element_text(nodes, FirstInserted(res))
                     = res.args.xml_content.forest[1].kids[1].data
                /\ ToTree(nodes, FirstInserted(res)) = res.args.xml_content.forest[1]
        /\ res.op = "replace_node" =>
              \A tag \in QueryTags \cup {nodes[res.args.elem].tag}, attrs \in QueryAttrs,
                 line_number \in QueryLines, contains \in QueryContains :
                 get_node(nodes, tag, attrs, line_number, contains).ret # res.args.elem

\* The paragraph a="1" was replaced by the paragraph a="7" after an
\* earlier edit, and a query that the replaced paragraph would pass finds
\* nothing.
C23_Witness ==
    /\ res.op = "replace_node"
    /\ res.st = "ok"
    /\ nops = 2
    /\ res.args.xml_content = FragOne
    /\ Carrying(nodes, "text:p", Attr("a", "7")) = {res.ret}
    /\ getAttribute(nodes, res.args.elem, "a") = "1"
    /\ get_node(nodes, "text:p", Attr("a", "1"), NoLineArg, NoContains).st = "raised"

\* The attached elements with the query's tag that pass its attrs and
\* contains filters and whose recorded line satisfies InLines.
RangeMatches(h, q, InLines(_)) ==
    {n \in Attached(h) :
        /\ IsElement(h, n)
        /\ h[n].tag = q.tag
        /\ PassesFilters(h, n, q.attrs, NoLineArg, q.contains)
        /\ h[n].pos # <<>>
        /\ InLines(h[n].pos[1])}

\* get_node answered as it must when M is the set of matching elements.
AnsweredFor(M) ==
    /\ (res.st = "ok") <=> (M = {res.ret})
    /\ (res.st = "raised" /\ res.err = "NotFound") <=> (M = {})
    /\ (res.st = "raised" /\ res.err = "Ambiguous") <=> (Cardinality(M) >= 2)

\* C19 as stated: with line_number = range(lo, hi) an element matches iff
\* its recorded line lies between lo and hi inclusive, so an element on
\* line hi is matched.
C19_RangeInclusive ==
    (res.op = "get_node" /\ res.args.line_number.kind = "range") =>
        AnsweredFor(RangeMatches(nodes, res.args,
                        LAMBDA l : /\ res.args.line_number.lo <= l
                                   /\ l <= res.args.line_number.hi))

\* C19 amended: with line_number = range(lo, hi) an element matches iff
\* its recorded line l has lo <= l < hi: the last line matched is hi - 1,
\* an element on line hi is not matched, and an element without a recorded
\* line never is.
C19_RangeHalfOpen ==
    (res.op = "get_node" /\ res.args.line_number.kind = "range") =>
        AnsweredFor(RangeMatches(nodes, res.args,
                        LAMBDA l : /\ res.args.line_number.lo <= l
                                   /\ l < res.args.line_number.hi))

\* A range query found nothing although an element with the tag, passing
\* the other filters, is on the line the range stops at.
C19_Witness ==
    /\ res.op = "get_node"
    /\ res.args.line_number.kind = "range"
    /\ res.st = "raised"
    /\ res.err = "NotFound"
    /\ RangeMatches(nodes, res.args, LAMBDA l : l = res.args.line_number.hi) # {}

\* ---------------------------------------------------------------------
\* The change-tracking session
\* ---------------------------------------------------------------------
TrackDocuments == {DocPretty, DocDeclsFirst, DocDeclsLast, DocTracked}

InsertionFragments == {FragOne, FragTwo, FragText, FragEmpty, Malformed}

ReplacementFragments == {FragOne, FragTwo, Malformed}

\* Arguments of add_change_record: kind, payload (empty for None) and
\* change-id ("" for None).
RecordArgs ==
    { [change_type |-> "insertion", content_xml |-> FragEmpty, change_id |-> ""],
      [change_type |-> "deletion", content_xml |-> FragOne, change_id |-> ""],
      [change_type |-> "format-change", content_xml |-> FragEmpty, change_id |-> "ct1"],
      [change_type |-> "insertion", content_xml |-> Malformed, change_id |-> ""],
      [change_type |-> "bogus", content_xml |-> FragEmpty, change_id |-> ""],
      [change_type |-> "bogus", content_xml |-> FragOne, change_id |-> "ct1"] }

Author == <<"A">>

\* Content a caller edits under change tracking: the elements of the body
\* outside the tracked-changes container.
InContainer(h, n) ==
    \/ h[n].tag = "text:tracked-changes"
    \/ \E a \in Ancestors(h, n) : h[a].tag = "text:tracked-changes"

TrackTargets(h) == {n \in Targets(h) : ~InContainer(h, n)}

InitTrack ==
    /\ \E d \in TrackDocuments : nodes = ParseDocument(d)
    /\ res = NoCall
    /\ nops = 0

EnsureTrackedChanges ==
    /\ nops < MaxOps
    /\ LET r == ensure_tracked_changes(nodes) IN
        /\ res' = Call("ensure_tracked_changes", <<>>, r)
        /\ nodes' = r.h
    /\ nops' = nops + 1

AddChangeRecord ==
    /\ nops < MaxOps
    /\ \E a \in RecordArgs :
        LET r == add_change_record(nodes, a.change_type, Author, <<>>,
                                   a.content_xml, a.change_id) IN
        /\ res' = Call("add_change_record", a, r)
        /\ nodes' = r.h
    /\ nops' = nops + 1

SuggestInsertion ==
    /\ nops < MaxOps
    /\ \E after_elem \in TrackTargets(nodes), xml_content \in InsertionFragments :
        LET r == suggest_insertion(nodes, after_elem, xml_content, Author) IN
        /\ res' = Call("suggest_insertion",
                       [elem |-> after_elem, xml_content |-> xml_content], r)
        /\ nodes' = r.h
    /\ nops' = nops + 1

SuggestDeletion ==
    /\ nops < MaxOps
    /\ \E target_elem \in TrackTargets(nodes) :
        LET r == suggest_deletion(nodes, target_elem, Author) IN
        /\ res' = Call("suggest_deletion", [elem |-> target_elem], r)
        /\ nodes' = r.h
    /\ nops' = nops + 1

SuggestReplacement ==
    /\ nops < MaxOps
    /\ \E target_elem \in TrackTargets(nodes), xml_content \in ReplacementFragments :
        LET r == suggest_replacement(nodes, target_elem, xml_content, Author) IN
        /\ res' = Call("suggest_replacement",
                       [elem |-> target_elem, xml_content |-> xml_content], r)
        /\ nodes' = r.h
    /\ nops' = nops + 1

NextTrack ==
    \/ EnsureTrackedChanges
    \/ AddChangeRecord
    \/ SuggestInsertion
    \/ SuggestDeletion
    \/ SuggestReplacement

SpecTrack == InitTrack /\ [][NextTrack]_vars

\* ---------------------------------------------------------------------
\* Properties of the change-tracking session
\* ---------------------------------------------------------------------
TrackOps == {"ensure_tracked_changes", "add_change_record", "suggest_insertion",
             "suggest_deletion", "suggest_replacement"}

AttachedElements(h, tag) == Range(getElementsByTagName(h, tag))

Containers(h) == AttachedElements(h, "text:tracked-changes")

\* The change records: the changed-region children of a container.
Records(h) ==
    LET containers == Containers(h)
    IN {r \in AttachedElements(h, "text:changed-region") : h[r].parent \in containers}

AttachedMarkers(h) ==
    {n \in Attached(h) :
        h[n].tag \in {"text:change-start", "text:change-end", "text:change"}}

\* Position of an attached node in document order.
DocOrder(h, n) == IndexOf(PreorderOf(h, DocNode), n)

\* C2: after any sequence of suggest_insertion, suggest_deletion and
\* suggest_replacement calls every change marker carries a change-id that a
\* changed-region of the container declares, and the validator reports no
\* error (exit status 0).
C2_MarkersDeclared ==
    LET declared == {getAttribute(nodes, r, "text:id") : r \in Records(nodes)}
    IN /\ \A m \in AttachedMarkers(nodes) :
             getAttribute(nodes, m, "text:change-id") \in declared
       /\ validate(nodes) = 0

\* A replacement went through in a document that already held a tracked
\* change: markers of three changes are in the body.
C2_Witness ==
    /\ res.op = "suggest_replacement"
    /\ res.st = "ok"
    /\ Cardinality({getAttribute(nodes, m, "text:change-id") :
                       m \in AttachedMarkers(nodes)}) >= 3

\* The id of the insertion the last call recorded.
InsertionId ==
    IF res.op = "suggest_replacement" THEN res.ret[2] ELSE res.ret

\* C3: after suggest_insertion (alone or within suggest_replacement) of a
\* fragment with one or more elements, the change-start marker of the new
\* id comes before its change-end marker in document order, and the two
\* enclose exactly the inserted nodes.
C3_StartBeforeEnd ==
    (res.op \in {"suggest_insertion", "suggest_replacement"} /\ res.st = "ok") =>
        LET body == {n \in Attached(nodes) : ~InContainer(nodes, n)}
            starts == {m \in body : /\ nodes[m].tag = "text:change-start"
                                    /\ getAttribute(nodes, m, "text:change-id") = InsertionId}
            ends == {m \in body : /\ nodes[m].tag = "text:change-end"
                                  /\ getAttribute(nodes, m, "text:change-id") = InsertionId}
        IN /\ Cardinality(starts) = 1
           /\ Cardinality(ends) = 1
           /\ \A s \in starts, e \in ends :
                 /\ DocOrder(nodes, s) < DocOrder(nodes, e)
                 /\ nodes[s].parent = nodes[e].parent
                 /\ LET kids == nodes[nodes[s].parent].kids
                        i == IndexOf(kids, s)
                        j == IndexOf(kids, e)
                    IN TreesOf(nodes, SubSeq(kids, i + 1, j - 1))
                         = MergeText(res.args.xml_content.forest)

\* C6: a change-tracking operation that raises leaves the document tree
\* exactly as it was before the call.
C6_FailureLeavesTree ==
    [][(IsCall /\ res'.op \in TrackOps /\ res'.st = "raised") =>
        DocTree(nodes') = DocTree(nodes)]_vars

\* C8: add_change_record with a change_type outside insertion, deletion and
\* format-change raises and leaves the document unchanged: no record is
\* added and no container is created.
C8_BogusKindRejected ==
    [][(IsCall /\ res'.op = "add_change_record"
          /\ res'.args.change_type \notin {"insertion", "deletion", "format-change"}) =>
        /\ res'.st = "raised"
        /\ DocTree(nodes') = DocTree(nodes)
        /\ Records(nodes') = Records(nodes)
        /\ Containers(nodes') = Containers(nodes)]_vars

\* One record was added, then a call with a bogus kind failed: the
\* container holds exactly one record.
C8_Witness ==
    /\ res.op = "add_change_record"
    /\ res.args.change_type = "bogus"
    /\ res.st = "raised"
    /\ nops = 2
    /\ Cardinality(Containers(nodes)) = 1
    /\ Cardinality(Records(nodes)) = 1

\* C9: after any sequence of ensure_tracked_changes, add_change_record and
\* suggest_* calls the document holds exactly one tracked-changes
\* container, and ensure_tracked_changes on a document that has one returns
\* it and changes nothing.
C9_SingleContainer ==
    [][IsCall =>
        /\ Cardinality(Containers(nodes')) <= 1
        /\ (res'.op \in TrackOps /\ res'.st = "ok") =>
               Cardinality(Containers(nodes')) = 1
        /\ (res'.op = "ensure_tracked_changes" /\ Containers(nodes) # {}) =>
               /\ res'.st = "ok"
               /\ res'.ret \in Containers(nodes)
               /\ DocTree(nodes') = DocTree(nodes)]_vars

\* A second ensure_tracked_changes hands back the container an earlier call
\* of the session created, records and all.
C9_Witness ==
    /\ res.op = "ensure_tracked_changes"
    /\ res.st = "ok"
    /\ nops = 2
    /\ nodes[res.ret].pos = <<>>
    /\ nodes[res.ret].kids # <<>>
    /\ Containers(nodes) = {res.ret}

\* C10: a container that ensure_tracked_changes creates stands in
\* office:text right after the text:sequence-decls child when there is one,
\* wherever that child is, and is the very first child otherwise.
C10_ContainerPlacement ==
    [][(IsCall /\ Containers(nodes) = {} /\ Containers(nodes') # {}) =>
        \A c \in Containers(nodes') :
            LET parent == nodes'[c].parent
                old == nodes[parent].kids
                new == nodes'[parent].kids
                decls == {i \in DOMAIN old : nodes[old[i]].tag = "text:sequence-decls"}
            IN /\ nodes[parent].tag = "office:text"
               /\ IF decls # {}
                  THEN \E i \in decls : new[i] = old[i] /\ new[i + 1] = c
                  ELSE new[1] = c]_vars


\* The records the step added.
NewRecords == Records(nodes') \ Records(nodes)

\* What a record holds after its office:change-info: the payload.
PayloadOf(h, record) ==
    LET change_elem == h[record].kids[1]
    IN TreesOf(h, Tail(h[change_elem].kids))

\* The record's kind: the tag of its only child.
KindOf(h, record) == h[h[record].kids[1]].tag

\* The attached markers with the tag that carry the id.
MarkersWith(h, tag, id) ==
    {m \in AttachedMarkers(h) :
        h[m].tag = tag /\ getAttribute(h, m, "text:change-id") = id}

\* C12: suggest_insertion of a well-formed fragment returns a new
\* change-id, adds one insertion record with the fragment as payload, puts
\* the fragment's nodes after after_elem, and marks them with one
\* change-start and one change-end of that id when the fragment has an
\* element, or with one point marker right after after_elem when it has
\* none.
C12_InsertionMarked ==
    [][(IsCall /\ res'.op = "suggest_insertion" /\ res'.args.xml_content.wf) =>
        LET after_elem == res'.args.elem
            fragment == MergeText(res'.args.xml_content.forest)
            id == res'.ret
        IN /\ res'.st = "ok"
           /\ Cardinality(NewRecords) = 1
           /\ \A r \in NewRecords :
                 /\ getAttribute(nodes', r, "text:id") = id
                 /\ KindOf(nodes', r) = "text:insertion"
                 /\ PayloadOf(nodes', r) = fragment
           /\ IF HasElement(res'.args.xml_content)
              THEN /\ Cardinality(MarkersWith(nodes', "text:change-start", id)) = 1
                   /\ Cardinality(MarkersWith(nodes', "text:change-end", id)) = 1
                   /\ MarkersWith(nodes', "text:change", id) = {}
              ELSE /\ MarkersWith(nodes', "text:change", id)
                        = {nextSibling(nodes', after_elem)}
                   /\ MarkersWith(nodes', "text:change-start", id) = {}
                   /\ MarkersWith(nodes', "text:change-end", id) = {}]_vars

\* C13: suggest_deletion succeeds, adds one deletion record whose payload
\* is the target as it was serialized before the call, leaves the point
\* marker where the target stood among its siblings, detaches the target,
\* and returns the id that the record and the marker both carry.
C13_DeletionMarked ==
    [][(IsCall /\ res'.op = "suggest_deletion") =>
        LET target == res'.args.elem
            id == res'.ret
            parent == nodes[target].parent
            old == nodes[parent].kids
            new == SelectSeq(nodes'[parent].kids,
                             LAMBDA n : ~(n \notin DOMAIN nodes
                                          /\ nodes'[n].tag = "text:tracked-changes"))
            records == {r \in Records(nodes') : r \notin DOMAIN nodes}
            carrying == {m \in AttachedMarkers(nodes') :
                            getAttribute(nodes', m, "text:change-id") = id}
        IN /\ res'.st = "ok"
           /\ Cardinality(records) = 1
           /\ \A r \in records :
                 /\ getAttribute(nodes', r, "text:id") = id
                 /\ KindOf(nodes', r) = "text:deletion"
                 /\ PayloadOf(nodes', r) = MergeText(<<ToTree(nodes, target)>>)
           /\ nodes'[target].parent = None
           /\ Len(new) = Len(old)
           /\ \A i \in DOMAIN old :
                 IF old[i] = target
                 THEN carrying = {new[i]} /\ nodes'[new[i]].tag = "text:change"
                 ELSE new[i] = old[i]]_vars

\* A paragraph between two siblings was deleted in a document that already
\* held a tracked change: its marker stands between them.
C13_Witness ==
    /\ res.op = "suggest_deletion"
    /\ res.st = "ok"
    /\ nops = 2
    /\ Cardinality(Records(nodes)) = 2
    /\ \E m \in MarkersWith(nodes, "text:change", res.ret) :
          LET kids == nodes[nodes[m].parent].kids
              i == IndexOf(kids, m)
          IN /\ 1 < i /\ i < Len(kids)
             /\ nodes[res.args.elem].tag = "text:p"

\* C14: suggest_replacement with a fragment that has an element returns
\* the ids of two records, one deletion and one insertion, detaches the
\* target, and leaves where it stood the deletion's point marker followed
\* at once by the insertion's change-start, the fragment's nodes and the
\* insertion's change-end.
C14_ReplacementSpan ==
    [][(IsCall /\ res'.op = "suggest_replacement"
          /\ HasElement(res'.args.xml_content)) =>
        /\ res'.st = "ok"
        /\ LET target == res'.args.elem
               del_id == res'.ret[1]
               ins_id == res'.ret[2]
               fragment == MergeText(res'.args.xml_content.forest)
               parent == nodes[target].parent
               old == nodes[parent].kids
               added == Containers(nodes') \ Containers(nodes)
               new == SelectSeq(nodes'[parent].kids, LAMBDA n : n \notin added)
               i == IndexOf(old, target)
               k == Len(fragment)
           IN /\ del_id # ins_id
              /\ Cardinality(NewRecords) = 2
              /\ {KindOf(nodes', r) : r \in {x \in NewRecords :
                        getAttribute(nodes', x, "text:id") = del_id}} = {"text:deletion"}
              /\ {KindOf(nodes', r) : r \in {x \in NewRecords :
                        getAttribute(nodes', x, "text:id") = ins_id}} = {"text:insertion"}
              /\ target \notin Attached(nodes')
              /\ Len(new) = Len(old) + k + 2
              /\ SubSeq(new, 1, i - 1) = SubSeq(old, 1, i - 1)
              /\ MarkersWith(nodes', "text:change", del_id) = {new[i]}
              /\ MarkersWith(nodes', "text:change-start", ins_id) = {new[i + 1]}
              /\ TreesOf(nodes', SubSeq(new, i + 2, i + k + 1)) = fragment
              /\ MarkersWith(nodes', "text:change-end", ins_id) = {new[i + k + 2]}
              /\ SubSeq(new, i + k + 3, Len(new)) = SubSeq(old, i + 1, Len(old))]_vars

\* The attached nodes that are not in a container.
BodyNodes(h) == {n \in Attached(h) : ~InContainer(h, n)}

\* C26: a successful add_change_record appends exactly one changed-region
\* as the last child of the container, carrying the returned id, which is
\* the caller's id when one was given; the records that were there and the
\* body outside the container stay as they were; and no call of the
\* session removes or alters a record.
C26_RecordAppended ==
    [][(IsCall /\ res'.op \in TrackOps) =>
        /\ \A r \in Records(nodes) :
              r \in Records(nodes') /\ ToTree(nodes', r) = ToTree(nodes, r)
        /\ (res'.op = "add_change_record" /\ res'.st = "ok") =>
              /\ Cardinality(NewRecords) = 1
              /\ \A r \in NewRecords :
                    /\ nodes'[nodes'[r].parent].kids[Len(nodes'[nodes'[r].parent].kids)] = r
                    /\ getAttribute(nodes', r, "text:id") = res'.ret
                    /\ nodes'[r].parent \in DOMAIN nodes =>
                          nodes'[nodes'[r].parent].kids = Append(nodes[nodes'[r].parent].kids, r)
              /\ res'.ret # ""
              /\ res'.args.change_id # "" => res'.ret = res'.args.change_id
              /\ BodyNodes(nodes') = BodyNodes(nodes)
              /\ \A n \in BodyNodes(nodes) :
                    /\ [nodes'[n] EXCEPT !.kids = <<>>] = [nodes[n] EXCEPT !.kids = <<>>]
                    /\ SelectSeq(nodes'[n].kids, LAMBDA k : k \in DOMAIN nodes) = nodes[n].kids
                    /\ \A i \in DOMAIN nodes'[n].kids :
                          nodes'[n].kids[i] \notin DOMAIN nodes =>
                             nodes'[nodes'[n].kids[i]].tag = "text:tracked-changes"]_vars

\* A second record, with the caller's id, stands after the first in the
\* container.
C26_Witness ==
    /\ res.op = "add_change_record"
    /\ res.st = "ok"
    /\ nops = 2
    /\ res.args.change_id # ""
    /\ \E r \in Records(nodes) :
          /\ getAttribute(nodes, r, "text:id") = res.args.change_id
          /\ Len(nodes[nodes[r].parent].kids) = 2
          /\ nodes[nodes[r].parent].kids[2] = r

\* C29: the payload copy in a record does not disturb the locator: after
\* suggest_insertion of a single-element fragment whose tag and attributes
\* no other body element carries, get_node by the tag and the attributes
\* returns the inserted body element; and after suggest_deletion of an
\* element, every query that returned that element before raises
\* not-found.
C29_PayloadHidden ==
    [][(IsCall /\ res'.st = "ok") =>
        /\ (/\ res'.op = "suggest_insertion"
            /\ SingleElement(res'.args.xml_content)
            /\ Carrying(nodes, res'.args.xml_content.forest[1].tag,
                        res'.args.xml_content.forest[1].attrs) \cap BodyNodes(nodes) = {})
             => LET r == get_node(nodes', res'.args.xml_content.forest[1].tag,
                                  res'.args.xml_content.forest[1].attrs,
                                  NoLineArg, NoContains)
                IN /\ r.st = "ok"
                   /\ r.ret \in BodyNodes(nodes')
                   /\ r.ret \notin DOMAIN nodes
        /\ res'.op = "suggest_deletion" =>
              \A tag \in QueryTags \cup {nodes[res'.args.elem].tag},
                 attrs \in QueryAttrs, line_number \in QueryLines,
                 contains \in QueryContains :
                 get_node(nodes, tag, attrs, line_number, contains)
                       = Ok(nodes, res'.args.elem)
                    => /\ get_node(nodes', tag, attrs, line_number, contains).st = "raised"
                       /\ get_node(nodes', tag, attrs, line_number, contains).err = "NotFound"]_vars

\* ---------------------------------------------------------------------
\* Tracked changes whose record a caller removes, and the validator
\* ---------------------------------------------------------------------
ValidateDocuments == {DocTracked, DocDeclsLast}

InitValidate ==
    /\ \E d \in ValidateDocuments : nodes = ParseDocument(d)
    /\ res = NoCall
    /\ nops = 0

\* A caller removes a change record with XMLEditor.remove_node and leaves
\* the markers alone.
RemoveRecord ==
    /\ nops < MaxOps
    /\ \E elem \in Records(nodes) :
        LET r == remove_node(nodes, elem) IN
        /\ res' = Call("remove_node", [elem |-> elem], r)
        /\ nodes' = r.h
    /\ nops' = nops + 1

\* validate_changes.validate on the document as it stands; it reads only.
Validate ==
    /\ res' = [op |-> "validate", args |-> <<>>, st |-> "ok", err |-> "",
               ret |-> validate(nodes), errors |-> ValidateErrors(nodes),
               warnings |-> ValidateWarnings(nodes)]
    /\ UNCHANGED <<nodes, nops>>

NextValidate ==
    \/ SuggestInsertion
    \/ SuggestDeletion
    \/ SuggestReplacement
    \/ RemoveRecord
    \/ Validate

SpecValidate == InitValidate /\ [][NextValidate]_vars

\* The change-ids a successful suggest_* call returned.
ProducedIds(r) ==
    IF r.op = "suggest_replacement" THEN {r.ret[1], r.ret[2]} ELSE {r.ret}

\* The step removes the record of an id that the call before it produced,
\* from a document the validator had no error for.
RemovesProducedRecord ==
    /\ IsCall
    /\ res'.op = "remove_node"
    /\ res.op \in {"suggest_insertion", "suggest_deletion", "suggest_replacement"}
    /\ res.st = "ok"
    /\ res'.args.elem \in Records(nodes)
    /\ getAttribute(nodes, res'.args.elem, "text:id") \in ProducedIds(res)
    /\ ValidateErrors(nodes) = <<>>

\* C11 as stated: removing the record of a produced change-id and leaving
\* its markers makes the validator report exactly one unknown-change-id
\* error.
C11_ExactlyOneError ==
    [][RemovesProducedRecord => Len(ValidateErrors(nodes')) = 1]_vars

\* C11 amended: removing the record of a produced change-id and leaving its
\* markers makes the validator fail with one unknown-change-id error for
\* every marker that carries the id, and no other error: one for the point
\* marker of a deletion, two for the start and end markers of an insertion.
C11_OneErrorPerMarker ==
    [][RemovesProducedRecord =>
        LET id == getAttribute(nodes, res'.args.elem, "text:id")
            carrying == {m \in AttachedMarkers(nodes') :
                            getAttribute(nodes', m, "text:change-id") = id}
            errors == ValidateErrors(nodes')
        IN /\ validate(nodes') = 1
           /\ Len(errors) = Cardinality(carrying)
           /\ \A i \in DOMAIN errors : errors[i] = id
           /\ Cardinality(carrying) =
                 IF \E m \in carrying : nodes'[m].tag = "text:change" THEN 1 ELSE 2]_vars

\* The record of an insertion was removed and its two markers are still in
\* the body.
C11_Witness ==
    /\ res.op = "remove_node"
    /\ nops = 2
    /\ Records(nodes) = {}
    /\ Len(ValidateErrors(nodes)) = 2
    /\ \E m \in AttachedMarkers(nodes) : nodes[m].tag = "text:change-start"


\* ---------------------------------------------------------------------
\* Markers placed by hand, and the validator on what results
\* ---------------------------------------------------------------------
ChangedRegion(id, kind, line) ==
    EL("text:changed-region", Attr("text:id", id), line, 0,
       <<EL(kind, NoAttrs, line, 30, <<>>)>>)

Marker(tag, id, line) == EL(tag, Attr("text:change-id", id), line, 0, <<>>)

\* two records that no marker refers to, two paragraphs
DocRecords ==
    Root(2, << EL("text:tracked-changes", NoAttrs, 3, 0,
                  <<ChangedRegion("ct1", "text:insertion", 4),
                    ChangedRegion("ct2", "text:deletion", 5)>>),
               EL("text:p", NoAttrs, 6, 0, <<T(<<"h", "i">>)>>),
               EL("text:p", NoAttrs, 7, 0, <<>>) >>)

\* a change-start without its end, an id whose change-end comes first and
\* has one change-end too many, and a record that no marker refers to
DocUnbalanced ==
    Root(2, << EL("text:tracked-changes", NoAttrs, 3, 0,
                  <<ChangedRegion("ct1", "text:insertion", 4),
                    ChangedRegion("ct2", "text:insertion", 5),
                    ChangedRegion("ct3", "text:deletion", 6)>>),
               Marker("text:change-start", "ct1", 7),
               EL("text:p", NoAttrs, 8, 0, <<T(<<"h", "i">>)>>),
               Marker("text:change-end", "ct2", 9),
               Marker("text:change-start", "ct2", 10),
               Marker("text:change-end", "ct2", 11) >>)

\* no container: a change-start without its end, a point marker, and a
\* point marker without an id
DocDangling ==
    Root(2, << Marker("text:change-start", "ct9", 3),
               EL("text:p", NoAttrs, 4, 0, <<T(<<"h", "i">>)>>),
               Marker("text:change", "ct8", 5),
               EL("text:change", NoAttrs, 6, 0, <<>>) >>)

MarkDocuments == {DocRecords, DocUnbalanced, DocDangling}

\* change-ids a caller passes: one that the files with a container declare,
\* one that none declares.
MarkIds == {"ct1", "ct7"}

\* The content a caller marks: body elements that are not markers.
MarkTargets(h) == {n \in TrackTargets(h) : h[n].tag \notin Range(MarkerTags)}

InitMark ==
    /\ \E d \in MarkDocuments : nodes = ParseDocument(d)
    /\ res = NoCall
    /\ nops = 0

AddChangeMarkers ==
    /\ nops < MaxOps
    /\ \E change_id \in MarkIds, start_elem \in MarkTargets(nodes),
          end_elem \in {None} \cup MarkTargets(nodes) :
        LET r == add_change_markers(nodes, change_id, start_elem, end_elem) IN
        /\ res' = Call("add_change_markers",
                       [change_id |-> change_id, start_elem |-> start_elem,
                        end_elem |-> end_elem], r)
        /\ nodes' = r.h
    /\ nops' = nops + 1

AddChangePoint ==
    /\ nops < MaxOps
    /\ \E change_id \in MarkIds, after_elem \in MarkTargets(nodes) :
        LET r == add_change_point(nodes, change_id, after_elem) IN
        /\ res' = Call("add_change_point",
                       [change_id |-> change_id, elem |-> after_elem], r)
        /\ nodes' = r.h
    /\ nops' = nops + 1

NextMark ==
    \/ AddChangeMarkers
    \/ AddChangePoint
    \/ RemoveRecord
    \/ Validate

SpecMark == InitMark /\ [][NextMark]_vars

\* The ids the change records of the container declare.
RecordIds(h) == {getAttribute(h, r, "text:id") : r \in Records(h)} \ {""}

\* The markers whose id no record declares.
Undeclared(h) ==
    LET declared == RecordIds(h)
    IN {m \in AttachedMarkers(h) :
           /\ getAttribute(h, m, "text:change-id") # ""
           /\ getAttribute(h, m, "text:change-id") \notin declared}

\* C15: the validator returns 1 exactly when some marker carries a
\* change-id that no changed-region of a tracked-changes container
\* declares, with one error for each such marker, and 0 otherwise; warnings
\* do not make it fail.
C15_FailsOnUndeclaredOnly ==
    res.op = "validate" =>
        LET undeclared == Undeclared(nodes) IN
        /\ res.ret \in {0, 1}
        /\ (res.ret = 1) <=> (undeclared # {})
        /\ Len(res.errors) = Cardinality(undeclared)
        /\ (undeclared = {} /\ res.warnings # {}) => res.ret = 0

\* The validator passed a document for which it had two kinds of warning.
C15_Witness ==
    /\ res.op = "validate"
    /\ res.ret = 0
    /\ nops = 2
    /\ \E w \in res.warnings : w.kind = "unbalanced"
    /\ \E w \in res.warnings : w.kind = "unreferenced"

\* C16: the validator warns about an id exactly when the id has more
\* change-start than change-end markers, or a record declares it and no
\* marker carries it; only the counts matter, not where the markers stand.
C16_WarningsByCount ==
    res.op = "validate" =>
        LET ids == RecordIds(nodes) \cup
                   {getAttribute(nodes, m, "text:change-id") : m \in AttachedMarkers(nodes)}
            more_starts == {c \in ids \ {""} :
                Cardinality(MarkersWith(nodes, "text:change-start", c))
                  > Cardinality(MarkersWith(nodes, "text:change-end", c))}
            unreferenced == {c \in RecordIds(nodes) :
                \A m \in AttachedMarkers(nodes) :
                    getAttribute(nodes, m, "text:change-id") # c}
        IN /\ {w.cid : w \in {x \in res.warnings : x.kind = "unbalanced"}} = more_starts
           /\ {w.cid : w \in {x \in res.warnings : x.kind = "unreferenced"}} = unreferenced
           /\ \A w \in res.warnings : w.kind \in {"unbalanced", "unreferenced"}

\* No balance warning after two calls that left a change-end before a
\* change-start of the same id.
C16_Witness ==
    /\ res.op = "validate"
    /\ nops = 2
    /\ \A w \in res.warnings : w.kind # "unbalanced"
    /\ \E s \in AttachedMarkers(nodes), e \in AttachedMarkers(nodes) :
          /\ nodes[s].tag = "text:change-start"
          /\ nodes[e].tag = "text:change-end"
          /\ getAttribute(nodes, s, "text:change-id") = getAttribute(nodes, e, "text:change-id")
          /\ DocOrder(nodes, e) < DocOrder(nodes, s)
          /\ nodes[s].pos = <<>>
          /\ nodes[e].pos = <<>>

\* C17: add_change_markers puts a change-start with the id right before
\* start and a change-end with the id right after end (start when no end
\* is given), adds nothing else to the document, and leaves the container
\* and its records as they were, whether a record declares the id or not.
C17_MarkersOnly ==
    [][(IsCall /\ res'.op = "add_change_markers") =>
        LET id == res'.args.change_id
            start == res'.args.start_elem
            end == IF res'.args.end_elem # None THEN res'.args.end_elem ELSE start
            kids == nodes'[nodes'[start].parent].kids
            before == kids[IndexOf(kids, start) - 1]
            after == nextSibling(nodes', end)
        IN /\ res'.st = "ok"
           /\ IndexOf(kids, start) > 1
           /\ nodes'[before].tag = "text:change-start"
           /\ getAttribute(nodes', before, "text:change-id") = id
           /\ after # None
           /\ nodes'[after].tag = "text:change-end"
           /\ getAttribute(nodes', after, "text:change-id") = id
           /\ Attached(nodes') \ Attached(nodes) = {before, after}
           /\ Attached(nodes) \subseteq Attached(nodes')
           /\ Containers(nodes') = Containers(nodes)
           /\ Records(nodes') = Records(nodes)
           /\ \A c \in Containers(nodes) : ToTree(nodes', c) = ToTree(nodes, c)]_vars

\* A range from the first paragraph to the second was marked with an id
\* that a record declares.
C17_Witness ==
    /\ res.op = "add_change_markers"
    /\ res.st = "ok"
    /\ res.args.end_elem \notin {None, res.args.start_elem}
    /\ res.args.change_id \in RecordIds(nodes)
    /\ DocOrder(nodes, res.args.start_elem) < DocOrder(nodes, res.args.end_elem)

\* ---------------------------------------------------------------------
\* The content-only validator (idml/scripts/validate_content_only_changes.py)
\* ---------------------------------------------------------------------
\* An ElementTree element: tag is the namespace and the local name, attrib
\* the set of <<name, value>> pairs of the dict, text and tail are <<>> for
\* None and <<s>> for the string s, kids the child elements in order.
Elem(ns, local, attrib, text, tail, kids) ==
    [tag |-> [ns |-> ns, local |-> local], attrib |-> attrib,
     text |-> text, tail |-> tail, kids |-> kids]

Leaf(local, attrib, text) == Elem("", local, attrib, text, <<>>, <<>>)

_strip_ns(tag) == tag.local

\* A story with two Content nodes and a Br between them in one range.
StoryPlain ==
    Elem("idPkg", "Story", {<<"DOMVersion", "16.0">>}, <<>>, <<>>,
      <<Elem("", "ParagraphStyleRange", {<<"AppliedParagraphStyle", "Body">>}, <<>>, <<>>,
          <<Elem("", "CharacterStyleRange", {<<"AppliedCharacterStyle", "None">>}, <<>>, <<>>,
              <<Leaf("Content", {}, <<"Hello">>),
                Leaf("Br", {}, <<>>),
                Leaf("Content", {}, <<"World">>)>>)>>)>>)

\* A story whose Content node has a sibling with a child of its own.
StoryProps ==
    Elem("idPkg", "Story", {<<"DOMVersion", "16.0">>}, <<>>, <<>>,
      <<Elem("", "CharacterStyleRange", {<<"Self", "r1">>}, <<"\n">>, <<>>,
          <<Elem("", "Properties", {}, <<>>, <<"\n">>,
              <<Leaf("Leading", {<<"type", "unit">>}, <<"12">>)>>),
            Leaf("Content", {}, <<"One">>)>>)>>)

\* A story with a Content node that has a child element.
StoryNested ==
    Elem("idPkg", "Story", {<<"DOMVersion", "16.0">>}, <<>>, <<>>,
      <<Elem("", "CharacterStyleRange", {}, <<>>, <<>>,
          <<Elem("", "Content", {}, <<"One">>, <<>>, <<Leaf("Br", {}, <<>>)>>),
            Leaf("Content", {}, <<"Two">>)>>)>>)

StoryDocuments == {StoryPlain, StoryProps, StoryNested}
StoryName == "Story_u1.xml"

RECURSIVE TreePaths(_)
\* The index paths of the elements of the tree t, <<>> for t itself.
TreePaths(t) ==
    {<<>>} \cup UNION {{<<i>> \o p : p \in TreePaths(t.kids[i])} : i \in DOMAIN t.kids}

RECURSIVE TreeAt(_, _)
TreeAt(t, p) == IF p = <<>> THEN t ELSE TreeAt(t.kids[p[1]], Tail(p))

RECURSIVE TreeWith(_, _, _)
\* The tree t with the element at p replaced by e.
TreeWith(t, p, e) ==
    IF p = <<>> THEN e
    ELSE [t EXCEPT !.kids[p[1]] = TreeWith(@, Tail(p), e)]

ContentPaths(t) == {p \in TreePaths(t) : _strip_ns(TreeAt(t, p).tag) = "Content"}

AttrSet(attrib, name, value) ==
    {pr \in attrib : pr[1] # name} \cup {<<name, value>>}

Finding(path, what) == [path |-> path, what |-> what]

ChildPath(path, child, idx) ==
    [path EXCEPT !.steps = Append(@, [tag |-> _strip_ns(child.tag), idx |-> idx])]

\* The Content branch with the text compared as well.
ContentFindingsWithText(a, b, path) ==
    (IF a.attrib # b.attrib THEN <<Finding(path, "Content attributes changed")>> ELSE <<>>)
    \o (IF a.text # b.text THEN <<Finding(path, "Content text changed")>> ELSE <<>>)
    \o (IF a.kids # <<>> \/ b.kids # <<>>
        THEN <<Finding(path, "Content has child elements")>> ELSE <<>>)
    \o (IF a.tail # b.tail THEN <<Finding(path, "Content tail changed")>> ELSE <<>>)

\* the branch of _compare_elements for a Content element
ContentFindings(a, b, path) ==
    (IF a.attrib # b.attrib THEN <<Finding(path, "Content attributes changed")>> ELSE <<>>)
    \o (IF a.kids # <<>> \/ b.kids # <<>>
        THEN <<Finding(path, "Content has child elements")>> ELSE <<>>)
    \o (IF a.tail # b.tail THEN <<Finding(path, "Content tail changed")>> ELSE <<>>)

RECURSIVE _compare_elements(_, _, _, _)
RECURSIVE CompareChildren(_, _, _, _, _)

\* The loop over the children left at the first child that adds an error.
CompareChildrenUntilError(a_children, b_children, errors, path, i) ==
    IF i > Len(a_children) THEN errors
    ELSE IF _compare_elements(a_children[i], b_children[i], errors,
                              ChildPath(path, a_children[i], i - 1)) # errors
    THEN _compare_elements(a_children[i], b_children[i], errors,
                           ChildPath(path, a_children[i], i - 1))
    ELSE CompareChildren(a_children, b_children, errors, path, i + 1)

\* for idx, (a_child, b_child) in enumerate(zip(a_children, b_children))
CompareChildren(a_children, b_children, errors, path, i) ==
    IF i > Len(a_children) THEN errors
    ELSE CompareChildren(a_children, b_children,
             _compare_elements(a_children[i], b_children[i], errors,
                               ChildPath(path, a_children[i], i - 1)),
             path, i + 1)

_compare_elements(a, b, errors, path) ==
    IF a.tag # b.tag THEN Append(errors, Finding(path, "tag mismatch"))
    ELSE IF _strip_ns(a.tag) = "Content" THEN errors \o ContentFindings(a, b, path)
    ELSE IF a.attrib # b.attrib THEN Append(errors, Finding(path, "attributes changed"))
    ELSE IF a.text # b.text
        THEN Append(errors, Finding(path, "text changed in non-Content element"))
    ELSE IF a.tail # b.tail
        THEN Append(errors, Finding(path, "tail changed in non-Content element"))
    ELSE IF Len(a.kids) # Len(b.kids) THEN Append(errors, Finding(path, "child count changed"))
    ELSE CompareChildren(a.kids, b.kids, errors, path, 1)

RootPath(name, root) == [file |-> name, root |-> _strip_ns(root.tag), steps |-> <<>>]

_compare_story_file(original, modified, errors) ==
    IF ~original.wf \/ ~modified.wf
    THEN Append(errors, Finding([file |-> StoryName, root |-> "", steps |-> <<>>],
                                "failed to parse XML"))
    ELSE _compare_elements(original.root, modified.root, errors,
                           RootPath(StoryName, original.root))

ContentTexts == {<<"Bonjour">>, <<>>}
AttrNames == {"Self", "Marked"}
AttrValues == {"x"}
OtherEdits == {"text", "tail", "drop", "grow", "retag"}

\* The element e after an edit of the given kind outside the Content text.
Edited(e, kind) ==
    CASE kind = "text" -> [e EXCEPT !.text = <<"zz">>]
      [] kind = "tail" -> [e EXCEPT !.tail = <<" ">>]
      [] kind = "drop" -> [e EXCEPT !.kids = SubSeq(@, 1, Len(@) - 1)]
      [] kind = "grow" -> [e EXCEPT !.kids = Append(@, Leaf("Br", {}, <<>>))]
      [] kind = "retag" -> [e EXCEPT !.tag.local = "Changed"]

InitCompare ==
    /\ \E d \in StoryDocuments :
          nodes = [a |-> [wf |-> TRUE, root |-> d], b |-> [wf |-> TRUE, root |-> d]]
    /\ res = [op |-> "init"]
    /\ nops = 0

\* The caller rewrites the text of one Content node of the modified story.
EditContent ==
    /\ nops < MaxOps
    /\ nodes.b.wf
    /\ \E p \in ContentPaths(nodes.b.root), t \in ContentTexts :
          /\ TreeAt(nodes.b.root, p).text # t
          /\ nodes' = [nodes EXCEPT !.b.root =
                          TreeWith(@, p, [TreeAt(@, p) EXCEPT !.text = t])]
          /\ res' = [op |-> "edit_content", path |-> p]
    /\ nops' = nops + 1

\* The caller sets one attribute of one element of the modified story.
AlterAttribute ==
    /\ nops < MaxOps
    /\ nodes.b.wf
    /\ \E p \in TreePaths(nodes.b.root), name \in AttrNames, value \in AttrValues :
          /\ <<name, value>> \notin TreeAt(nodes.b.root, p).attrib
          /\ nodes' = [nodes EXCEPT !.b.root =
                          TreeWith(@, p, [TreeAt(@, p) EXCEPT
                                             !.attrib = AttrSet(@, name, value)])]
          /\ res' = [op |-> "alter_attribute", path |-> p]
    /\ nops' = nops + 1

\* The caller changes the modified story in some other way.
EditOther ==
    /\ nops < MaxOps
    /\ nodes.b.wf
    /\ \E p \in TreePaths(nodes.b.root), kind \in OtherEdits :
          /\ kind = "text" => p \notin ContentPaths(nodes.b.root)
          /\ kind = "drop" => TreeAt(nodes.b.root, p).kids # <<>>
          /\ Edited(TreeAt(nodes.b.root, p), kind) # TreeAt(nodes.b.root, p)
          /\ nodes' = [nodes EXCEPT !.b.root =
                          TreeWith(@, p, Edited(TreeAt(@, p), kind))]
          /\ res' = [op |-> "edit_other", path |-> p]
    /\ nops' = nops + 1

\* The modified story file is left unparsable.
Corrupt ==
    /\ nops < MaxOps
    /\ nodes.b.wf
    /\ nodes' = [nodes EXCEPT !.b.wf = FALSE]
    /\ res' = [op |-> "corrupt", path |-> <<>>]
    /\ nops' = nops + 1

Compare ==
    /\ res' = [op |-> "compare", errors |-> _compare_story_file(nodes.a, nodes.b, <<>>)]
    /\ UNCHANGED <<nodes, nops>>

NextCompare ==
    \/ EditContent
    \/ AlterAttribute
    \/ EditOther
    \/ Corrupt
    \/ Compare

SpecCompare == InitCompare /\ [][NextCompare]_vars

\* ---------------------------------------------------------------------
\* Properties of the content-only validator
\* ---------------------------------------------------------------------
RECURSIVE StepsTo(_, _)
\* The steps "/tag[idx]" from the root of t down to the element at p.
StepsTo(t, p) ==
    IF p = <<>> THEN <<>>
    ELSE <<[tag |-> t.kids[p[1]].tag.local, idx |-> p[1] - 1]>>
            \o StepsTo(t.kids[p[1]], Tail(p))

\* The siblings of the element at p: the other children of its parent.
SiblingPaths(t, p) ==
    IF p = <<>> THEN {}
    ELSE {q \in TreePaths(t) :
            /\ Len(q) = Len(p)
            /\ q # p
            /\ SubSeq(q, 1, Len(q) - 1) = SubSeq(p, 1, Len(p) - 1)}

\* The names whose value differs, or that only one of the two dicts has.
AlteredNames(x, y) == {pr[1] : pr \in (x \ y) \cup (y \ x)}

\* The Content nodes of the original story: leaves, as Content nodes are.
ContentLeaves(t) == {p \in ContentPaths(t) : TreeAt(t, p).kids = <<>>}

\* b is a with the text of the Content node at p changed and nothing else.
OnlyContentTextAt(a, b, p) ==
    /\ p \in TreePaths(b)
    /\ TreeAt(b, p).text # TreeAt(a, p).text
    /\ TreeWith(b, p, [TreeAt(b, p) EXCEPT !.text = TreeAt(a, p).text]) = a

\* b is a with the text of the Content node at p changed, one attribute of
\* its sibling at q altered, and nothing else.
ContentTextAndSiblingAttr(a, b, p, q) ==
    /\ p \in TreePaths(b)
    /\ q \in TreePaths(b)
    /\ TreeAt(b, p).text # TreeAt(a, p).text
    /\ Cardinality(AlteredNames(TreeAt(a, q).attrib, TreeAt(b, q).attrib)) = 1
    /\ TreeWith(TreeWith(b, p, [TreeAt(b, p) EXCEPT !.text = TreeAt(a, p).text]),
                q, [TreeAt(b, q) EXCEPT !.attrib = TreeAt(a, q).attrib]) = a

\* C20: when the modified story differs from the original only in the
\* text of one Content node the comparison reports no error; when one
\* attribute of a sibling of that node is altered as well it reports
\* exactly one error, and the error carries the sibling's path.
C20_ContentOnly ==
    res.op = "compare" =>
        \A p \in ContentLeaves(nodes.a.root) :
            /\ (nodes.b.wf /\ OnlyContentTextAt(nodes.a.root, nodes.b.root, p))
                  => res.errors = <<>>
            /\ \A q \in SiblingPaths(nodes.a.root, p) :
                  (nodes.b.wf /\ ContentTextAndSiblingAttr(nodes.a.root, nodes.b.root, p, q))
                     => /\ Len(res.errors) = 1
                        /\ res.errors[1].path =
                             [file |-> StoryName, root |-> nodes.a.root.tag.local,
                              steps |-> StepsTo(nodes.a.root, q)]

\* The stories were compared after a Content text and an attribute of a
\* sibling with a child of its own had been changed.
C20_Witness ==
    /\ res.op = "compare"
    /\ nodes.b.wf
    /\ Len(res.errors) = 1
    /\ \E p \in ContentLeaves(nodes.a.root) : \E q \in SiblingPaths(nodes.a.root, p) :
          /\ ContentTextAndSiblingAttr(nodes.a.root, nodes.b.root, p, q)
          /\ TreeAt(nodes.a.root, q).kids # <<>>

\* The comparer's path of the element at p of the original story.
PathTo(t, p) == [file |-> StoryName, root |-> t.tag.local, steps |-> StepsTo(t, p)]

\* The first difference of the pair itself in the order tag, attributes,
\* text, tail, child count; "" when there is none.
OwnDifference(x, y) ==
    IF x.tag # y.tag THEN "tag mismatch"
    ELSE IF x.attrib # y.attrib THEN "attributes changed"
    ELSE IF x.text # y.text THEN "text changed in non-Content element"
    ELSE IF x.tail # y.tail THEN "tail changed in non-Content element"
    ELSE IF Len(x.kids) # Len(y.kids) THEN "child count changed"
    ELSE ""

IsContentPair(x, y) == x.tag = y.tag /\ x.tag.local = "Content"

RECURSIVE Compared(_, _, _)
\* The pair at p is compared: every pair above it is a non-Content pair
\* without a difference of its own.
Compared(a, b, p) ==
    \/ p = <<>>
    \/ /\ Compared(a, b, SubSeq(p, 1, Len(p) - 1))
       /\ ~IsContentPair(TreeAt(a, SubSeq(p, 1, Len(p) - 1)), TreeAt(b, SubSeq(p, 1, Len(p) - 1)))
       /\ OwnDifference(TreeAt(a, SubSeq(p, 1, Len(p) - 1)),
                        TreeAt(b, SubSeq(p, 1, Len(p) - 1))) = ""

ComparedPaths(a, b) == {p \in TreePaths(a) : Compared(a, b, p)}

ErrorsAt(errors, path) == {i \in DOMAIN errors : errors[i].path = path}

\* C21: for a compared pair of Content elements an error is recorded iff
\* their attributes, their child elements or their tail differ; a
\* difference in the text alone produces none.
C21_ContentPair ==
    (res.op = "compare" /\ nodes.b.wf) =>
        \A p \in ComparedPaths(nodes.a.root, nodes.b.root) :
            IsContentPair(TreeAt(nodes.a.root, p), TreeAt(nodes.b.root, p)) =>
                (ErrorsAt(res.errors, PathTo(nodes.a.root, p)) # {}
                    <=> \/ TreeAt(nodes.a.root, p).attrib # TreeAt(nodes.b.root, p).attrib
                        \/ TreeAt(nodes.a.root, p).kids # TreeAt(nodes.b.root, p).kids
                        \/ TreeAt(nodes.a.root, p).tail # TreeAt(nodes.b.root, p).tail)

\* C28: a compared non-Content pair has exactly one error, the first of
\* tag, attributes, text, tail and child count that differs, or none when
\* none differs; pairs below it are compared only in the latter case; and
\* every error belongs to a compared pair, so each diverging subtree has
\* its entry whatever its siblings did.
C28_OnePerSubtree ==
    (res.op = "compare" /\ nodes.b.wf) =>
        /\ \A p \in ComparedPaths(nodes.a.root, nodes.b.root) :
              ~IsContentPair(TreeAt(nodes.a.root, p), TreeAt(nodes.b.root, p)) =>
                 IF OwnDifference(TreeAt(nodes.a.root, p), TreeAt(nodes.b.root, p)) = ""
                 THEN ErrorsAt(res.errors, PathTo(nodes.a.root, p)) = {}
                 ELSE /\ Cardinality(ErrorsAt(res.errors, PathTo(nodes.a.root, p))) = 1
                      /\ \A i \in ErrorsAt(res.errors, PathTo(nodes.a.root, p)) :
                            res.errors[i].what =
                               OwnDifference(TreeAt(nodes.a.root, p), TreeAt(nodes.b.root, p))
        /\ \A i \in DOMAIN res.errors :
              \E p \in ComparedPaths(nodes.a.root, nodes.b.root) :
                 res.errors[i].path = PathTo(nodes.a.root, p)

\* Two sibling subtrees diverged, each in its own way, and each has its
\* entry, the earlier sibling first.
C28_Witness ==
    /\ res.op = "compare"
    /\ nodes.b.wf
    /\ Len(res.errors) = 2
    /\ \E p \in ComparedPaths(nodes.a.root, nodes.b.root) :
          \E q \in SiblingPaths(nodes.a.root, p) :
             /\ p[Len(p)] < q[Len(q)]
             /\ q \in ComparedPaths(nodes.a.root, nodes.b.root)
             /\ ~IsContentPair(TreeAt(nodes.a.root, p), TreeAt(nodes.b.root, p))
             /\ ~IsContentPair(TreeAt(nodes.a.root, q), TreeAt(nodes.b.root, q))
             /\ res.errors[1].path = PathTo(nodes.a.root, p)
             /\ res.errors[2].path = PathTo(nodes.a.root, q)
             /\ res.errors[1].what # res.errors[2].what

\* C30: comparing a story with an identical copy of itself yields an
\* empty error list, whatever its shape.
C30_Reflexive ==
    (res.op = "compare" /\ nodes.b = nodes.a) => res.errors = <<>>

\* ---------------------------------------------------------------------
\* Annotations next to tracked changes
\* ---------------------------------------------------------------------
AnnotateDocuments == {DocRecords, DocUnbalanced, DocPretty}

\* The comment text a caller passes: plain, and with a bare ampersand.
AnnotationTexts == {Xml(<<T(<<"o", "k">>)>>), Malformed}

AnnotationNames == {"", "n1"}
RandomNames == {"c1", "c2"}

PositionQueries == {LineArg(0), LineArg(6), RangeArg(0, 9)}
PositionTags == {"text:p", "office:annotation"}

\* The content a caller annotates: body elements that are not markers and
\* not part of an annotation.
AnnotateTargets(h) ==
    {n \in MarkTargets(h) :
        /\ h[n].tag \notin {"office:annotation", "office:annotation-end"}
        /\ \A a \in Ancestors(h, n) : h[a].tag # "office:annotation"}

InitAnnotate ==
    /\ \E d \in AnnotateDocuments : nodes = ParseDocument(d)
    /\ res = NoCall
    /\ nops = 0

AddAnnotation ==
    /\ nops < MaxOps
    /\ \E target_elem \in AnnotateTargets(nodes), text \in AnnotationTexts,
          name \in AnnotationNames, random \in RandomNames :
        LET r == add_annotation(nodes, target_elem, text, Author, <<>>, name, random) IN
        /\ res' = Call("add_annotation",
                       [target_elem |-> target_elem, text |-> text, name |-> name], r)
        /\ nodes' = r.h
    /\ nops' = nops + 1

AddAnnotationRange ==
    /\ nops < MaxOps
    /\ \E start_elem \in AnnotateTargets(nodes), end_elem \in AnnotateTargets(nodes),
          text \in AnnotationTexts, name \in AnnotationNames, random \in RandomNames :
        LET r == add_annotation_range(nodes, start_elem, end_elem, text, Author, <<>>,
                                      name, random) IN
        /\ res' = Call("add_annotation_range",
                       [start_elem |-> start_elem, end_elem |-> end_elem,
                        text |-> text, name |-> name], r)
        /\ nodes' = r.h
    /\ nops' = nops + 1

\* suggest_insertion of one paragraph: it creates fragment nodes, markers,
\* a record and, where there is none, the container.
SuggestParagraph ==
    /\ nops < MaxOps
    /\ \E after_elem \in AnnotateTargets(nodes) :
        LET r == suggest_insertion(nodes, after_elem, FragOne, Author) IN
        /\ res' = Call("suggest_insertion",
                       [elem |-> after_elem, xml_content |-> FragOne], r)
        /\ nodes' = r.h
    /\ nops' = nops + 1

\* get_node with a position.
GetNodeAt ==
    /\ nops < MaxOps
    /\ \E tag \in PositionTags, line_number \in PositionQueries :
        LET r == get_node(nodes, tag, NoAttrs, line_number, NoContains) IN
        /\ res' = Call("get_node",
                       [tag |-> tag, attrs |-> NoAttrs,
                        line_number |-> line_number, contains |-> NoContains], r)
        /\ nodes' = r.h
    /\ nops' = nops + 1

NextAnnotate ==
    \/ AddAnnotation
    \/ AddAnnotationRange
    \/ SuggestParagraph
    \/ GetNodeAt

SpecAnnotate == InitAnnotate /\ [][NextAnnotate]_vars

\* ---------------------------------------------------------------------
\* Properties of annotations and of positions
\* ---------------------------------------------------------------------
\* C24: in every state of a session each element of the parsed file has
\* the position the parser gave it and each element created later
\* (fragment nodes, container, records, markers, annotations) has none;
\* and get_node with a position never returns an element created later.
C24_PositionsOnlyParsed ==
    \E d \in AnnotateDocuments :
        /\ Len(ParseDocument(d)) <= Len(nodes)
        /\ \A n \in DOMAIN nodes :
              IsElement(nodes, n) =>
                 IF n <= Len(ParseDocument(d))
                 THEN nodes[n].pos # <<>> /\ nodes[n].pos = ParseDocument(d)[n].pos
                 ELSE nodes[n].pos = <<>>
        /\ (res.op = "get_node" /\ res.args.line_number.kind # "none" /\ res.st = "ok")
              => res.ret <= Len(ParseDocument(d))

\* A query by a range of lines returned the one parsed paragraph in range
\* while a paragraph created later stood in the body.
C24_Witness ==
    /\ res.op = "get_node"
    /\ res.st = "ok"
    /\ res.args.tag = "text:p"
    /\ res.args.line_number.kind = "range"
    /\ nodes[res.ret].pos # <<>>
    /\ \E n \in Attached(nodes) :
          /\ nodes[n].tag = "text:p"
          /\ nodes[n].pos = <<>>
          /\ ~InContainer(nodes, n)

\* The change-ids the attached markers carry.
MarkerIdSet(h) == {getAttribute(h, m, "text:change-id") : m \in AttachedMarkers(h)}

\* C25: add_annotation and add_annotation_range add no record, no marker
\* and no container, so the declared change-ids and the marker change-ids
\* are what they were; and a successful add_annotation_range leaves the
\* annotation right before start_elem and an annotation-end with the same
\* name right after end_elem.
C25_AnnotationsApart ==
    [][(IsCall /\ res'.op \in {"add_annotation", "add_annotation_range"}) =>
        /\ Records(nodes') = Records(nodes)
        /\ AttachedMarkers(nodes') = AttachedMarkers(nodes)
        /\ Containers(nodes') = Containers(nodes)
        /\ DeclaredIds(nodes') = DeclaredIds(nodes)
        /\ MarkerIdSet(nodes') = MarkerIdSet(nodes)
        /\ \A c \in Containers(nodes) : ToTree(nodes', c) = ToTree(nodes, c)
        /\ (res'.op = "add_annotation_range" /\ res'.args.text.wf) =>
              LET start == res'.args.start_elem
                  end == res'.args.end_elem
                  kids == nodes'[nodes'[start].parent].kids
                  before == kids[IndexOf(kids, start) - 1]
                  after == nextSibling(nodes', end)
              IN /\ res'.st = "ok"
                 /\ res'.ret # ""
                 /\ res'.args.name # "" => res'.ret = res'.args.name
                 /\ IndexOf(kids, start) > 1
                 /\ nodes'[before].tag = "office:annotation"
                 /\ getAttribute(nodes', before, "office:name") = res'.ret
                 /\ after # None
                 /\ nodes'[after].tag = "office:annotation-end"
                 /\ getAttribute(nodes', after, "office:name") = res'.ret
                 /\ before \notin DOMAIN nodes
                 /\ after \notin DOMAIN nodes]_vars

\* A range from one paragraph to a later one was annotated in a document
\* that has records and markers.
C25_Witness ==
    /\ res.op = "add_annotation_range"
    /\ res.st = "ok"
    /\ Records(nodes) # {}
    /\ AttachedMarkers(nodes) # {}
    /\ res.args.start_elem # res.args.end_elem
    /\ DocOrder(nodes, res.args.start_elem) < DocOrder(nodes, res.args.end_elem)

\* ---------------------------------------------------------------------
\* Parse, locate by text, edit and save (XMLEditor.__init__ and save)
\* ---------------------------------------------------------------------
\* Characters are one-character strings; the one below stands for a letter
\* outside ASCII.  Bytes are written the same way, "0xC3" and "0xA9" being
\* the two bytes of that letter in UTF-8.
EAcute == "U+00E9"
NonAscii == {EAcute}
HighBytes == {"0xC3", "0xA9"}

\* What the writer puts for one character of a text node.
CharRefs ==
    {[ch |-> "&", bytes |-> <<"&", "a", "m", "p", ";">>],
     [ch |-> "<", bytes |-> <<"&", "l", "t", ";">>],
     [ch |-> ">", bytes |-> <<"&", "g", "t", ";">>],
     [ch |-> EAcute, bytes |-> <<"&", "#", "2", "3", "3", ";">>]}

RefOf(ch) == (CHOOSE e \in CharRefs : e.ch = ch).bytes

\* The writer with the utf-8 bytes whatever the encoding.
EncodeCharUtf8(ch, encoding) ==
    IF ch \in {"&", "<", ">"} THEN RefOf(ch)
    ELSE IF ch \in NonAscii THEN <<"0xC3", "0xA9">>
    ELSE <<ch>>

\* Node.toxml(encoding): markup characters are escaped by minidom, and the
\* TextIOWrapper it writes through has errors="xmlcharrefreplace", so a
\* character the encoding lacks becomes a numeric character reference.
EncodeChar(ch, encoding) ==
    IF ch \in {"&", "<", ">"} THEN RefOf(ch)
    ELSE IF ch \in NonAscii
         THEN IF encoding = "ascii" THEN RefOf(ch) ELSE <<"0xC3", "0xA9">>
    ELSE <<ch>>

RECURSIVE EncodeData(_, _)
EncodeData(data, encoding) ==
    IF data = <<>> THEN <<>>
    ELSE EncodeChar(Head(data), encoding) \o EncodeData(Tail(data), encoding)

RECURSIVE EncodeTree(_, _)
EncodeTree(t, encoding) ==
    IF t.kind = "text" THEN [t EXCEPT !.data = EncodeData(@, encoding)]
    ELSE [t EXCEPT !.kids = [i \in DOMAIN @ |-> EncodeTree(@[i], encoding)]]

IsPrefix(a, b) == Len(a) <= Len(b) /\ SubSeq(b, 1, Len(a)) = a

RECURSIVE DecodeData(_)
\* What the parser reads from the bytes of character data.
DecodeData(bytes) ==
    IF bytes = <<>> THEN <<>>
    ELSE IF \E e \in CharRefs : IsPrefix(e.bytes, bytes)
    THEN <<(CHOOSE e \in CharRefs : IsPrefix(e.bytes, bytes)).ch>>
            \o DecodeData(SubSeq(bytes,
                    Len((CHOOSE e \in CharRefs : IsPrefix(e.bytes, bytes)).bytes) + 1,
                    Len(bytes)))
    ELSE IF IsPrefix(<<"0xC3", "0xA9">>, bytes)
    THEN <<EAcute>> \o DecodeData(SubSeq(bytes, 3, Len(bytes)))
    ELSE <<Head(bytes)>> \o DecodeData(Tail(bytes))

RECURSIVE DecodeTree(_)
DecodeTree(t) ==
    IF t.kind = "text" THEN [t EXCEPT !.data = DecodeData(@)]
    ELSE [t EXCEPT !.kids = [i \in DOMAIN @ |-> DecodeTree(@[i])]]

\* A file: the encoding its XML declaration names and its bytes, read as
\* the tree they spell.
FileOf(encoding, root) == [encoding |-> encoding, root |-> EncodeTree(root, encoding)]

\* self.encoding = "ascii" if 'encoding="ascii"' in header else "utf-8"
DetectEncoding(file) == IF file.encoding = "ascii" THEN "ascii" ELSE "utf-8"

\* XMLEditor.__init__
XMLEditor(file) ==
    [dom |-> ParseDocument(DecodeTree(file.root)),
     encoding |-> DetectEncoding(file),
     file |-> file]

\* XMLEditor.save: content = dom.toxml(encoding=self.encoding), written
\* over the file.
save(editor) ==
    [editor EXCEPT !.file =
        [encoding |-> editor.encoding,
         root |-> EncodeTree(ToTree(editor.dom, documentElement(editor.dom)),
                             editor.encoding)]]

\* a paragraph whose text is split over two spans with a blank between
\* them, and a paragraph with an ampersand
DocSpaced ==
    Root(2, << EL("text:p", Attr("a", "1"), 2, 40,
                  <<T(<<"h">>), EL("text:span", NoAttrs, 2, 50, <<T(<<"i">>)>>),
                    T(<<" ">>), EL("text:span", NoAttrs, 2, 70, <<T(<<"j">>)>>)>>),
               EL("text:p", Attr("a", "2"), 3, 0, <<T(<<"a", "&", "b">>)>>) >>)

\* a paragraph with a letter outside ASCII
DocAccent ==
    Root(2, << EL("text:p", NoAttrs, 2, 40, <<T(<<"h", EAcute>>)>>) >>)

SaveFiles ==
    {FileOf(encoding, root) : encoding \in {"ascii", "utf-8"}, root \in {DocSpaced, DocAccent}}

FragAccent == Xml(<<E("text:span", NoAttrs, <<T(<<EAcute>>)>>)>>)
SaveFragments == {FragOne, FragAccent}

ContainsQueries ==
    {Contains(<<"h", "i">>), Contains(<<"i", "j">>), Contains(<<"i", " ", "j">>),
     Contains(<<"&amp;", "b">>), Contains(<<EAcute>>)}

InitSave ==
    /\ \E file \in SaveFiles : nodes = XMLEditor(file)
    /\ res = NoCall
    /\ nops = 0

\* get_node with contains.
GetNodeContaining ==
    /\ nops < MaxOps
    /\ \E tag \in QueryTags, contains \in ContainsQueries :
        LET r == get_node(nodes.dom, tag, NoAttrs, NoLineArg, contains) IN
        /\ res' = Call("get_node",
                       [tag |-> tag, attrs |-> NoAttrs,
                        line_number |-> NoLineArg, contains |-> contains], r)
        /\ nodes' = [nodes EXCEPT !.dom = r.h]
    /\ nops' = nops + 1

AppendFragment ==
    /\ nops < MaxOps
    /\ \E elem \in Targets(nodes.dom), xml_content \in SaveFragments :
        LET r == append_to(nodes.dom, elem, xml_content) IN
        /\ res' = Call("append_to", [elem |-> elem, xml_content |-> xml_content], r)
        /\ nodes' = [nodes EXCEPT !.dom = r.h]
    /\ nops' = nops + 1

Save ==
    /\ nops < MaxOps
    /\ nodes' = save(nodes)
    /\ res' = Call("save", <<>>, Ok(nodes.dom, None))
    /\ nops' = nops + 1

NextSave ==
    \/ GetNodeContaining
    \/ AppendFragment
    \/ Save

SpecSave == InitSave /\ [][NextSave]_vars

\* ---------------------------------------------------------------------
\* Properties of locating by text and of saving
\* ---------------------------------------------------------------------
\* The attached text nodes under n, in document order.
TextNodesUnder(h, n) == SelectSeq(PreorderOf(h, n), LAMBDA k : h[k].kind = "text")

RECURSIVE Concat(_, _)
Concat(h, ns) == IF ns = <<>> THEN <<>> ELSE h[Head(ns)].data \o Concat(h, Tail(ns))

\* All the text among the descendants of n.
AllText(h, n) == Concat(h, TextNodesUnder(h, n))

\* The same without the text nodes that are whitespace only.
NonBlankText(h, n) ==
    Concat(h, SelectSeq(TextNodesUnder(h, n),
                        LAMBDA k : \E i \in DOMAIN h[k].data : h[k].data[i] \notin {" ", "\n"}))

\* The attached elements with the tag whose text, as Text gives it, has
\* the decoded search text in it.
ContainsMatches(h, q, Text(_, _)) ==
    {n \in Attached(h) :
        /\ IsElement(h, n)
        /\ h[n].tag = q.tag
        /\ IsSubstring(Unescape(q.contains.text), Text(h, n))}

\* C27 as stated: contains matches an element iff the decoded search text
\* is a substring of all the text among its descendants, concatenated in
\* document order, the text that separates child elements included.
C27_ContainsAllText ==
    (res.op = "get_node" /\ res.args.contains.given) =>
        AnsweredFor(ContainsMatches(nodes.dom, res.args, AllText))

\* C27 amended: contains matches an element iff the decoded search text is
\* a substring of the concatenation, in document order, of the descendant
\* text nodes that are not whitespace only; text split over several child
\* elements is matched, and a blank text node between them is left out.
C27_ContainsNonBlankText ==
    (res.op = "get_node" /\ res.args.contains.given) =>
        AnsweredFor(ContainsMatches(nodes.dom, res.args, NonBlankText))

\* "ij" was found in the paragraph that spells i, a blank and j over two
\* spans.
C27_Witness ==
    /\ res.op = "get_node"
    /\ res.st = "ok"
    /\ res.args.contains = Contains(<<"i", "j">>)
    /\ res.args.tag = "text:p"
    /\ ~IsSubstring(<<"i", "j">>, AllText(nodes.dom, res.ret))

\* Some text node of the document has a character outside ASCII.
HasNonAscii(h) ==
    \E n \in Attached(h) :
        h[n].kind = "text" /\ \E i \in DOMAIN h[n].data : h[n].data[i] \in NonAscii

RECURSIVE BytesOfTree(_)
\* Every byte of the character data of a file's tree.
BytesOfTree(t) ==
    IF t.kind = "text" THEN Range(t.data)
    ELSE UNION {BytesOfTree(t.kids[i]) : i \in DOMAIN t.kids}

SavesAsciiWithNonAscii ==
    /\ IsCall
    /\ res'.op = "save"
    /\ nodes.encoding = "ascii"
    /\ HasNonAscii(nodes.dom)

====
